---------------------------- MODULE Spec2Model ----------------------------
(***************************************************************************)
(* A model of the point-in-time alignment and walk-forward engine of the   *)
(* stock-selection backtester:                                             *)
(*   - SP500Constituents.process_quarterly_changes (sp500_constituents.py) *)
(*   - process_ticker / process_tickers            (processing_tickers.py) *)
(*   - FiveCategoryDivision.create_target   (five_category_division.py)    *)
(*   - the walk-forward loop of main                            (main.py)  *)
(*   - CummulativeImportanceSelector                (eighty_cummulative.py) *)
(*   - EquityCurve.compute_equity_curve and _get_price_on_date           *)
(*                                                       (equity_curve.py) *)
(*                                                                         *)
(* Dates are day numbers of an abstract calendar in which a year has       *)
(* QuartersPerYear quarters of DaysPerQuarter days; day 0 is the first day *)
(* of year 0.  Each component has its own specification; the variables of  *)
(* the other components stay at their idle values.                         *)
(***************************************************************************)
EXTENDS Integers, Sequences, FiniteSets, TLC

VARIABLES
    \* ---- process_quarterly_changes ----
    changes,               \* the list of change records handed in
    changes_sorted,        \* the records with date_dt, sorted by the sort key
    change_index,          \* cursor into changes_sorted (0-based, as in the code)
    current_constituents,  \* running membership set
    timeline,              \* quarter date -> member set, the function's result
    q_pos,                 \* position of the for-loop in quarterly_dates (1-based)
    tl_pc,                 \* "start", "loop", "done"
    \* ---- process_ticker ----
    factors,               \* category -> table, what calculate_all_factors returns
    start_date,
    end_date,
    merged_factors,        \* the running merged panel
    cat_pos,               \* position of the for-loop in factors.items() (1-based)
    pt_pc,                 \* "start", "merge", "done"
    \* ---- a second run of process_ticker on the same factors ----
    rerun_merged_factors,  \* what the second run returns
    rerun_pc,              \* "start", "done"
    \* ---- process_tickers ----
    worker_outcome,        \* ticker -> how its process_ticker call ends
    future_state,          \* ticker -> state of its future in the pool
    merged_factors_list,   \* the panels gathered so far
    pool_result,           \* the DataFrame process_tickers returns
    pool_pc,               \* "start", "gather", "done", "raised"
    \* ---- create_target ----
    target_df,             \* the DataFrame handed to create_target
    target_out,            \* the DataFrame it returns
    target_pc,             \* "start", "done"
    \* ---- the walk-forward loop of main ----
    merged_df,             \* the cleaned concatenated panel (main.py line 74)
    timeline_df,           \* snapshot date -> constituents (lines 39-41)
    train_data,            \* retained training rows
    train_columns,         \* the columns of train_data
    test_data,
    predictions,           \* the prediction log
    quarter_pos,           \* position of the for-loop in quarters (1-based)
    current_quarter,
    active_constituents,
    train_active,
    test_active,
    raised_at,             \* line the latest iteration raised at, 0 if none
    wf_pc,                 \* "start", "loop", "done", "aborted"
    \* ---- CummulativeImportanceSelector ----
    selector_model,        \* self.model: its attributes and their values
    selector_df,           \* self.df: the list of its columns
    threshold,             \* self.threshold, in tenths
    importance_type,       \* self.importance_type, "" while unset
    selected_features,     \* what select_features returns
    sel_pc,                \* "new", "constructed", "error", "selected"
    \* ---- EquityCurve.compute_equity_curve ----
    predictions_df,        \* self.predictions_df, sorted by Quarter
    overall_end_date,      \* self.overall_end_date
    price_on_date,         \* ticker -> date -> what _get_price_on_date returns
    equity,                \* the running equity, a fraction
    curve,                 \* the list of curve points
    row_pos,               \* position of the for-loop in predictions_df (1-based)
    eq_pc,                 \* "start", "loop", "done"
    \* ---- the ranking of a scored quarter (main.py lines 163, 199-204) ----
    rank_test_quarter,     \* the test rows of the quarter with what the model predicts
    rank_active,           \* active_constituents of the quarter
    rank_test_active,      \* test_active: filtered, then sorted at line 201
    top5,                  \* the list of line 202
    rank_pc,               \* "start", "filtered", "done"
    \* ---- main: process_tickers, cleaning, create_target (lines 60-85) ----
    ticker_panels,         \* ticker -> the panel process_ticker returns for it
    completion_order,      \* the order in which as_completed yields the tickers
    build_df,              \* merged_df of main
    build_pc,              \* "start", "merged", "cleaned", "labeled"
    \* ---- EquityCurve._get_price_on_date ----
    price_history,         \* date -> price row of the ticker at the data service
    api_outcome,           \* how get_historical_price ends
    target_date,           \* the date asked for
    price,                 \* what _get_price_on_date returns
    lookup_pc              \* "start", "done"

tlVars == <<changes, changes_sorted, change_index, current_constituents,
            timeline, q_pos, tl_pc>>

ptVars == <<factors, start_date, end_date, merged_factors, cat_pos, pt_pc>>

rrVars == <<rerun_merged_factors, rerun_pc>>

poolVars == <<worker_outcome, future_state, merged_factors_list, pool_result, pool_pc>>

tgVars == <<target_df, target_out, target_pc>>

wfVars == <<merged_df, timeline_df, train_data, train_columns, test_data,
            predictions, quarter_pos, current_quarter, active_constituents,
            train_active, test_active, raised_at, wf_pc>>

selVars == <<selector_model, selector_df, threshold, importance_type,
             selected_features, sel_pc>>

eqVars == <<predictions_df, overall_end_date, price_on_date, equity, curve,
            row_pos, eq_pc>>

rkVars == <<rank_test_quarter, rank_active, rank_test_active, top5, rank_pc>>

bdVars == <<ticker_panels, completion_order, build_df, build_pc>>

pxVars == <<price_history, api_outcome, target_date, price, lookup_pc>>

vars == <<tlVars, ptVars, rrVars, poolVars, tgVars, wfVars, selVars, eqVars,
          rkVars, bdVars, pxVars>>

\* what a component leaves alone: the variables of the other components
tlOthers == <<ptVars, poolVars, tgVars, wfVars, selVars, eqVars, rrVars,
              rkVars, bdVars, pxVars>>
ptOthers == <<tlVars, poolVars, tgVars, wfVars, selVars, eqVars, rrVars,
              rkVars, bdVars, pxVars>>
poolOthers == <<tlVars, ptVars, tgVars, wfVars, selVars, eqVars, rrVars,
                rkVars, bdVars, pxVars>>
tgOthers == <<tlVars, ptVars, poolVars, wfVars, selVars, eqVars, rrVars,
              rkVars, bdVars, pxVars>>
wfOthers == <<tlVars, ptVars, poolVars, tgVars, selVars, eqVars, rrVars,
              rkVars, bdVars, pxVars>>
selOthers == <<tlVars, ptVars, poolVars, tgVars, wfVars, eqVars, rrVars,
               rkVars, bdVars, pxVars>>
eqOthers == <<tlVars, ptVars, poolVars, tgVars, wfVars, selVars, rrVars,
              rkVars, bdVars, pxVars>>
rrOthers == <<tlVars, ptVars, poolVars, tgVars, wfVars, selVars, eqVars,
              rkVars, bdVars, pxVars>>
rkOthers == <<tlVars, ptVars, rrVars, poolVars, tgVars, wfVars, selVars,
              eqVars, bdVars, pxVars>>
bdOthers == <<tlVars, ptVars, rrVars, poolVars, tgVars, wfVars, selVars,
              eqVars, rkVars, pxVars>>
pxOthers == <<tlVars, ptVars, rrVars, poolVars, tgVars, wfVars, selVars,
              eqVars, rkVars, bdVars>>

-----------------------------------------------------------------------------
(* Generic helpers *)

Range(s) == {s[i] : i \in DOMAIN s}

\* All sequences over S of length 0..n
SeqsUpTo(S, n) == UNION {[1..k -> S] : k \in 0..n}

-----------------------------------------------------------------------------
(* Calendar *)

QuartersPerYear == 4
DaysPerQuarter == 2
DaysPerYear == QuartersPerYear * DaysPerQuarter

\* output_start_year and end_year of the constructor, as years of the
\* abstract calendar; year 0 lies before the output window.
OutputStartYear == 1
EndYear == 1

YearOf(d) == d \div DaysPerYear

\* pd.date_range(start, end, freq='QS'): the quarter starts in [start, end]
QuarterStartsBetween(lo, hi) ==
    {d \in lo..hi : d % DaysPerQuarter = 0}

\* ascending enumeration of a finite set of integers
RECURSIVE SetToSortedSeq(_)
SetToSortedSeq(S) ==
    IF S = {} THEN <<>>
    ELSE LET m == CHOOSE x \in S : \A y \in S : x <= y
         IN <<m>> \o SetToSortedSeq(S \ {m})

\* generate_quarterly_dates(f"{output_start_year}-01-01", f"{end_year}-12-31")
TimelineQuarterlyDates ==
    SetToSortedSeq(QuarterStartsBetween(OutputStartYear * DaysPerYear,
                                        (EndYear + 1) * DaysPerYear - 1))

-----------------------------------------------------------------------------
(* Idle values of the components a specification does not run *)

RerunIdle ==
    /\ rerun_merged_factors = <<>>
    /\ rerun_pc = "idle"

PanelIdle ==
    /\ RerunIdle
    /\ factors = <<>>
    /\ start_date = 0
    /\ end_date = 0
    /\ merged_factors = <<>>
    /\ cat_pos = 0
    /\ pt_pc = "idle"

PoolIdle ==
    /\ worker_outcome = <<>>
    /\ future_state = <<>>
    /\ merged_factors_list = <<>>
    /\ pool_result = <<>>
    /\ pool_pc = "idle"

WalkIdle ==
    /\ merged_df = <<>>
    /\ timeline_df = <<>>
    /\ train_data = <<>>
    /\ train_columns = {}
    /\ test_data = <<>>
    /\ predictions = <<>>
    /\ quarter_pos = 0
    /\ current_quarter = 0
    /\ active_constituents = {}
    /\ train_active = <<>>
    /\ test_active = <<>>
    /\ raised_at = 0
    /\ wf_pc = "idle"

TargetIdle ==
    /\ target_df = <<>>
    /\ target_out = <<>>
    /\ target_pc = "idle"

TimelineIdle ==
    /\ changes = <<>>
    /\ changes_sorted = <<>>
    /\ change_index = 0
    /\ current_constituents = {}
    /\ timeline = <<>>
    /\ q_pos = 0
    /\ tl_pc = "idle"

SelectorIdle ==
    /\ selector_model = <<>>
    /\ selector_df = <<>>
    /\ threshold = 0
    /\ importance_type = ""
    /\ selected_features = <<>>
    /\ sel_pc = "idle"

RankIdle ==
    /\ rank_test_quarter = <<>>
    /\ rank_active = {}
    /\ rank_test_active = <<>>
    /\ top5 = <<>>
    /\ rank_pc = "idle"

BuildIdle ==
    /\ ticker_panels = <<>>
    /\ completion_order = <<>>
    /\ build_df = <<>>
    /\ build_pc = "idle"

PriceIdle ==
    /\ price_history = <<>>
    /\ api_outcome = ""
    /\ target_date = 0
    /\ price = <<>>
    /\ lookup_pc = "idle"

EquityIdle ==
    /\ predictions_df = <<>>
    /\ overall_end_date = 0
    /\ price_on_date = <<>>
    /\ equity = <<>>
    /\ curve = <<>>
    /\ row_pos = 0
    /\ eq_pc = "idle"

-----------------------------------------------------------------------------
(* process_quarterly_changes *)

Symbols == {"A", "B"}
NoSymbol == ""      \* key absent, None or empty string: the falsy cases

MaxEvents == 2
EventSpan == 3

\* The days change events are drawn from: from the last day before the
\* output window up to EventSpan days later.
FirstEventDay == OutputStartYear * DaysPerYear - 1
EventDays == FirstEventDay .. (FirstEventDay + EventSpan)

\* A raw change record.  date.kind is "ok" (a parseable date string, of day
\* date.day), "bad" (a string pd.to_datetime rejects) or "missing" (no
\* "date" key).
RawDates == [kind : {"ok"}, day : EventDays]
            \cup [kind : {"bad", "missing"}, day : {0}]

\* Additions range over every symbol, removals over RemovedSymbols.
RemovedSymbols == {"A"}
ChangeRecords == [date : RawDates,
                  symbol : Symbols \cup {NoSymbol},
                  removedTicker : RemovedSymbols \cup {NoSymbol}]

\* lines 57-65: date_dt is a Timestamp, or NaT when the key is missing or
\* the string does not parse
NaT == [nat |-> TRUE, t |-> 0]
ToDatetime(date) ==
    IF date.kind = "ok" THEN [nat |-> FALSE, t |-> date.day] ELSE NaT

WithDateDt(c) ==
    [date |-> c.date, symbol |-> c.symbol, removedTicker |-> c.removedTicker,
     date_dt |-> ToDatetime(c.date)]

\* line 68: the sort key; datetime.min is below every Timestamp
DatetimeMin == -1
SortKey(c) == IF c.date_dt.nat THEN DatetimeMin ELSE c.date_dt.t

\* sorted(..., key=...) is stable: an element goes after every element
\* whose key is <= its own
RECURSIVE InsertByKey(_, _)
InsertByKey(s, c) ==
    IF s = <<>> THEN <<c>>
    ELSE IF SortKey(Head(s)) <= SortKey(c)
         THEN <<Head(s)>> \o InsertByKey(Tail(s), c)
         ELSE <<c>> \o s

RECURSIVE SortedByKey(_)
SortedByKey(s) ==
    IF s = <<>> THEN <<>>
    ELSE InsertByKey(SortedByKey(SubSeq(s, 1, Len(s) - 1)), s[Len(s)])

\* line 78: changes_sorted[change_index]["date_dt"] <= q_date; every
\* comparison with NaT is False
DateLeqStrict(dt, q) == (~dt.nat) /\ dt.t < q
DateLeq(dt, q) == (~dt.nat) /\ dt.t <= q

\* lines 80-85: discard removedTicker, then add symbol
ApplyChangeTo(members, c) ==
    LET afterRemove == IF c.removedTicker # NoSymbol
                       THEN members \ {c.removedTicker} ELSE members
    IN IF c.symbol # NoSymbol THEN afterRemove \cup {c.symbol} ELSE afterRemove

\* line 89: q_date.year >= self.output_start_year
InOutputRangeStrict(q) == YearOf(q) > OutputStartYear
InOutputRange(q) == YearOf(q) >= OutputStartYear

TimelineInit ==
    /\ PriceIdle
    /\ BuildIdle
    /\ RankIdle
    /\ SelectorIdle
    /\ EquityIdle
    /\ WalkIdle
    /\ PanelIdle
    /\ PoolIdle
    /\ TargetIdle
    /\ changes \in SeqsUpTo(ChangeRecords, MaxEvents)
    /\ changes_sorted = <<>>
    /\ change_index = 0
    /\ current_constituents = {}
    /\ timeline = <<>>
    /\ q_pos = 0
    /\ tl_pc = "start"

\* lines 57-74: parse the dates, sort, set up the replay
SortChanges ==
    /\ tl_pc = "start"
    /\ changes_sorted' = SortedByKey([i \in DOMAIN changes |-> WithDateDt(changes[i])])
    /\ change_index' = 0
    /\ current_constituents' = {}
    /\ timeline' = <<>>
    /\ q_pos' = 1
    /\ tl_pc' = "loop"
    /\ UNCHANGED changes
    /\ UNCHANGED tlOthers

WhileCondition ==
    /\ change_index < Len(changes_sorted)
    /\ DateLeq(changes_sorted[change_index + 1].date_dt, TimelineQuarterlyDates[q_pos])

\* lines 78-86: one iteration of the while loop
ApplyChange ==
    /\ tl_pc = "loop"
    /\ q_pos <= Len(TimelineQuarterlyDates)
    /\ WhileCondition
    /\ current_constituents' =
           ApplyChangeTo(current_constituents, changes_sorted[change_index + 1])
    /\ change_index' = change_index + 1
    /\ UNCHANGED <<changes, changes_sorted, timeline, q_pos, tl_pc>>
    /\ UNCHANGED tlOthers

\* lines 88-90: the while loop is over; record the snapshot, next quarter
RecordSnapshot ==
    /\ tl_pc = "loop"
    /\ q_pos <= Len(TimelineQuarterlyDates)
    /\ ~WhileCondition
    /\ LET q == TimelineQuarterlyDates[q_pos]
       IN timeline' =
            IF InOutputRange(q)
            THEN [d \in DOMAIN timeline \cup {q} |->
                     IF d = q THEN current_constituents ELSE timeline[d]]
            ELSE timeline
    /\ q_pos' = q_pos + 1
    /\ UNCHANGED <<changes, changes_sorted, change_index, current_constituents, tl_pc>>
    /\ UNCHANGED tlOthers

\* line 92: return timeline
ReturnTimeline ==
    /\ tl_pc = "loop"
    /\ q_pos > Len(TimelineQuarterlyDates)
    /\ tl_pc' = "done"
    /\ UNCHANGED <<changes, changes_sorted, change_index, current_constituents,
                   timeline, q_pos>>
    /\ UNCHANGED tlOthers

TimelineNext == SortChanges \/ ApplyChange \/ RecordSnapshot \/ ReturnTimeline

SpecTimeline == TimelineInit /\ [][TimelineNext]_vars

-----------------------------------------------------------------------------
(* process_ticker: the panel merge *)

PanelLastDay == 3
MaxRows == 2

PanelDays == 1..PanelLastDay

\* The categories of factors, in the order factors.items() yields them.
\* "quality" is the anchor; "momentum" stands for every other category.
Categories == <<"quality", "momentum">>

\* A cell of a table: NaN, or a value.  A value is named by the row it was
\* reported in: its category and that row's date.
NaN == [nan |-> TRUE, cat |-> "", src |-> 0]
Value(cat, d) == [nan |-> FALSE, cat |-> cat, src |-> d]

\* The tables of a category: up to MaxRows rows with distinct dates in any
\* row order, each with a value or NaN in its value column.
TableRows(cat) ==
    {t \in SeqsUpTo([date : PanelDays, val : {TRUE, FALSE}], MaxRows) :
        \A i, j \in DOMAIN t : i # j => t[i].date # t[j].date}

MakeTable(cat, t) ==
    [i \in DOMAIN t |->
        [date |-> t[i].date,
         val |-> IF t[i].val THEN Value(cat, t[i].date) ELSE NaN]]

\* What a category of factors holds: a DataFrame with a "date" column
\* (valid), or anything else (a scalar, an error value, a frame without a
\* date column).
CategoryValues(cat) ==
    {[valid |-> TRUE, rows |-> MakeTable(cat, t)] : t \in TableRows(cat)}
    \cup {[valid |-> FALSE, rows |-> <<>>]}

\* DataFrame.sort_values(by="date"): ascending by date
RECURSIVE InsertByDate(_, _)
InsertByDate(s, r) ==
    IF s = <<>> THEN <<r>>
    ELSE IF Head(s).date <= r.date
         THEN <<Head(s)>> \o InsertByDate(Tail(s), r)
         ELSE <<r>> \o s

RECURSIVE SortValuesByDate(_)
SortValuesByDate(t) ==
    IF t = <<>> THEN <<>>
    ELSE InsertByDate(SortValuesByDate(SubSeq(t, 1, Len(t) - 1)), t[Len(t)])

\* DataFrame.bfill(): a NaN takes the next value below it
RECURSIVE BFill(_)
BFill(t) ==
    IF t = <<>> THEN <<>>
    ELSE LET rest == BFill(Tail(t))
         IN IF Head(t).val.nan /\ rest # <<>>
            THEN <<[date |-> Head(t).date, val |-> Head(rest).val]>> \o rest
            ELSE <<Head(t)>> \o rest

\* DataFrame.ffill(): a NaN takes the last value above it
RECURSIVE FFill(_)
FFill(t) ==
    IF t = <<>> THEN <<>>
    ELSE LET init == FFill(SubSeq(t, 1, Len(t) - 1))
             last == t[Len(t)]
         IN IF last.val.nan /\ init # <<>>
            THEN Append(init, [date |-> last.date, val |-> init[Len(init)].val])
            ELSE Append(init, last)

DatesOf(t) == {t[i].date : i \in DOMAIN t}

\* the value column of table t at date d (dates are distinct)
ValAt(t, d) ==
    IF d \in DatesOf(t)
    THEN LET i == CHOOSE k \in DOMAIN t : t[k].date = d IN t[i].val
    ELSE NaN

\* pd.merge(merged_factors[["date"]], factor_values, on="date", how="outer"):
\* one row per date of either side, the keys in sorted order (the order
\* pandas documents for how="outer")
OuterMergeOnDate(axis, t) ==
    LET keys == SetToSortedSeq(axis \cup DatesOf(t))
    IN [i \in DOMAIN keys |-> [date |-> keys[i], val |-> ValAt(t, keys[i])]]

\* pd.merge(merged_factors, factor_values, on="date", how="left"): the rows
\* of the left side in their order, each with the columns of the right
\* side's row of the same date
LeftMergeOnDate(merged, cat, t) ==
    [i \in DOMAIN merged |->
        [date |-> merged[i].date,
         cols |-> [c \in DOMAIN merged[i].cols \cup {cat} |->
                      IF c = cat THEN ValAt(t, merged[i].date)
                      ELSE merged[i].cols[c]]]]

\* lines 31-44 with the running panel of the first run as the left side:
\* state shared between two runs
MergeOneCategoryShared(merged, cat, table) ==
    LET sorted == FFill(SortValuesByDate(table))
        filled == FFill(OuterMergeOnDate({merged_factors[i].date : i \in DOMAIN merged_factors},
                                         sorted))
    IN LeftMergeOnDate(merged_factors, cat, filled)

\* lines 31-44 for one category
MergeOneCategory(merged, cat, table) ==
    LET sorted == FFill(SortValuesByDate(table))
        filled == FFill(OuterMergeOnDate({merged[i].date : i \in DOMAIN merged}, sorted))
    IN LeftMergeOnDate(merged, cat, filled)

\* lines 48-50
InDateRange(merged, lo, hi) ==
    SelectSeq(merged, LAMBDA r : r.date >= lo /\ r.date <= hi)

PanelInit ==
    /\ PriceIdle
    /\ BuildIdle
    /\ RankIdle
    /\ RerunIdle
    /\ SelectorIdle
    /\ EquityIdle
    /\ WalkIdle
    /\ TimelineIdle
    /\ PoolIdle
    /\ TargetIdle
    /\ factors \in [quality : CategoryValues("quality"),
                    momentum : CategoryValues("momentum")]
    /\ \E cut \in {0, 1} :
          /\ start_date = 1 + cut
          /\ end_date = PanelLastDay - cut
    /\ merged_factors = <<>>
    /\ cat_pos = 0
    /\ pt_pc = "start"

\* lines 16-27, and 53-55 when the anchor is no table: the anchor check and
\* the date axis
StartTicker ==
    /\ pt_pc = "start"
    /\ IF ~factors.quality.valid \/ factors.quality.rows = <<>>
       THEN /\ merged_factors' = <<>>
            /\ cat_pos' = cat_pos
            /\ pt_pc' = "done"
       ELSE /\ merged_factors' =
                 [i \in DOMAIN factors.quality.rows |->
                     [date |-> factors.quality.rows[i].date, cols |-> <<>>]]
            /\ cat_pos' = 1
            /\ pt_pc' = "merge"
    /\ UNCHANGED <<factors, start_date, end_date>>
    /\ UNCHANGED ptOthers

\* lines 29-46 without the check of line 30: the merge of a value that is
\* no table with a date column raises, and lines 53-55 return an empty panel
MergeCategoryUnchecked ==
    /\ pt_pc = "merge"
    /\ cat_pos <= Len(Categories)
    /\ LET cat == Categories[cat_pos]
       IN IF factors[cat].valid
          THEN /\ merged_factors' = MergeOneCategory(merged_factors, cat, factors[cat].rows)
               /\ cat_pos' = cat_pos + 1
               /\ pt_pc' = pt_pc
          ELSE /\ merged_factors' = <<>>
               /\ cat_pos' = cat_pos
               /\ pt_pc' = "done"
    /\ UNCHANGED <<factors, start_date, end_date>>
    /\ UNCHANGED ptOthers

\* lines 29-46: one iteration of the loop over the categories
MergeCategory ==
    /\ pt_pc = "merge"
    /\ cat_pos <= Len(Categories)
    /\ LET cat == Categories[cat_pos]
       IN merged_factors' =
            IF factors[cat].valid
            THEN MergeOneCategory(merged_factors, cat, factors[cat].rows)
            ELSE merged_factors
    /\ cat_pos' = cat_pos + 1
    /\ UNCHANGED <<factors, start_date, end_date, pt_pc>>
    /\ UNCHANGED ptOthers

\* lines 48-51: the date-range filter and the return
ReturnPanel ==
    /\ pt_pc = "merge"
    /\ cat_pos > Len(Categories)
    /\ merged_factors' = InDateRange(merged_factors, start_date, end_date)
    /\ pt_pc' = "done"
    /\ UNCHANGED <<factors, start_date, end_date, cat_pos>>
    /\ UNCHANGED ptOthers

PanelNext == StartTicker \/ MergeCategory \/ ReturnPanel

SpecPanel == PanelInit /\ [][PanelNext]_vars

-----------------------------------------------------------------------------
(* process_ticker, run a second time on the same factors, symbol and dates *)

\* lines 29-46: the loop over the categories from position pos on
RECURSIVE MergeCategoriesFrom(_, _, _)
MergeCategoriesFrom(merged, f, pos) ==
    IF pos > Len(Categories) THEN merged
    ELSE LET cat == Categories[pos]
         IN MergeCategoriesFrom(
                IF f[cat].valid THEN MergeOneCategory(merged, cat, f[cat].rows)
                ELSE merged,
                f, pos + 1)

\* lines 21-55: what process_ticker returns for the factors f
ProcessTicker(f, lo, hi) ==
    IF ~f.quality.valid \/ f.quality.rows = <<>>
    THEN <<>>
    ELSE InDateRange(
             MergeCategoriesFrom(
                 [i \in DOMAIN f.quality.rows |->
                     [date |-> f.quality.rows[i].date, cols |-> <<>>]],
                 f, 1),
             lo, hi)

RerunInit ==
    /\ PriceIdle
    /\ BuildIdle
    /\ RankIdle
    /\ SelectorIdle
    /\ EquityIdle
    /\ WalkIdle
    /\ TimelineIdle
    /\ PoolIdle
    /\ TargetIdle
    /\ factors \in [quality : CategoryValues("quality"),
                    momentum : CategoryValues("momentum")]
    /\ start_date = 1
    /\ end_date = PanelLastDay - 1
    /\ merged_factors = <<>>
    /\ cat_pos = 0
    /\ pt_pc = "start"
    /\ rerun_merged_factors = <<>>
    /\ rerun_pc = "start"

\* lines 16-55: the second run, from call to return, at any moment of the
\* first
RerunProcessTicker ==
    /\ rerun_pc = "start"
    /\ rerun_merged_factors' = ProcessTicker(factors, start_date, end_date)
    /\ rerun_pc' = "done"
    /\ UNCHANGED rrOthers

\* the two runs, in any interleaving
RerunNext == StartTicker \/ MergeCategory \/ ReturnPanel \/ RerunProcessTicker

SpecRerun == RerunInit /\ [][RerunNext]_vars

-----------------------------------------------------------------------------
(* process_tickers: the worker pool *)

NumTickers == 3
MaxWorkers == 2

PoolTickers == 1..NumTickers

\* How the process_ticker call of a ticker ends:
\*   "panel"        it returns a non-empty panel            (line 51)
\*   "no_quality"   the anchor table is empty               (lines 22-24)
\*   "raises"       an exception inside process_ticker      (lines 53-55)
\*   "future_error" the future itself ends with an exception (line 77 raises)
WorkerOutcomes == {"panel", "no_quality", "raises", "future_error"}

\* the panel of a ticker: its rows carry the ticker (line 27)
PanelRowsOf(t) == <<[Ticker |-> t, date |-> 1], [Ticker |-> t, date |-> 2]>>

\* what process_ticker returns to the pool: the panel, or an empty DataFrame
ProcessTickerReturn(t, outcome) ==
    IF outcome = "panel" THEN PanelRowsOf(t) ELSE <<>>

\* lines 76-81 without the try/except
GatherNoCatch(list, t, outcome) ==
    IF outcome = "future_error" THEN [raised |-> TRUE, list |-> list]
    ELSE IF ProcessTickerReturn(t, outcome) # <<>>
         THEN [raised |-> FALSE, list |-> Append(list, ProcessTickerReturn(t, outcome))]
         ELSE [raised |-> FALSE, list |-> list]

\* lines 76-81: future.result() inside try/except Exception; a non-empty
\* result is appended
Gather(list, t, outcome) ==
    IF outcome = "future_error" THEN [raised |-> FALSE, list |-> list]
    ELSE IF ProcessTickerReturn(t, outcome) # <<>>
         THEN [raised |-> FALSE, list |-> Append(list, ProcessTickerReturn(t, outcome))]
         ELSE [raised |-> FALSE, list |-> list]

\* pd.concat(list, ignore_index=True)
RECURSIVE Concat(_)
Concat(list) ==
    IF list = <<>> THEN <<>> ELSE Head(list) \o Concat(Tail(list))

PoolInit ==
    /\ PriceIdle
    /\ BuildIdle
    /\ RankIdle
    /\ SelectorIdle
    /\ EquityIdle
    /\ WalkIdle
    /\ TimelineIdle
    /\ PanelIdle
    /\ TargetIdle
    /\ worker_outcome \in [PoolTickers -> WorkerOutcomes]
    /\ future_state = [t \in PoolTickers |-> "none"]
    /\ merged_factors_list = <<>>
    /\ pool_result = <<>>
    /\ pool_pc = "start"

\* lines 67-73: every ticker is submitted to the executor
SubmitAll ==
    /\ pool_pc = "start"
    /\ future_state' = [t \in PoolTickers |-> "pending"]
    /\ merged_factors_list' = <<>>
    /\ pool_pc' = "gather"
    /\ UNCHANGED <<worker_outcome, pool_result>>
    /\ UNCHANGED poolOthers

\* a free worker process takes a pending call (at most max_workers run)
WorkerStarts(t) ==
    /\ pool_pc = "gather"
    /\ future_state[t] = "pending"
    /\ Cardinality({u \in PoolTickers : future_state[u] = "running"}) < MaxWorkers
    /\ future_state' = [future_state EXCEPT ![t] = "running"]
    /\ UNCHANGED <<worker_outcome, merged_factors_list, pool_result, pool_pc>>
    /\ UNCHANGED poolOthers

\* the call ends and its future is set, with a result or an exception
WorkerFinishes(t) ==
    /\ pool_pc = "gather"
    /\ future_state[t] = "running"
    /\ future_state' = [future_state EXCEPT ![t] = "finished"]
    /\ UNCHANGED <<worker_outcome, merged_factors_list, pool_result, pool_pc>>
    /\ UNCHANGED poolOthers

\* lines 74-81: as_completed yields a finished future; one loop iteration
GatherResult(t) ==
    /\ pool_pc = "gather"
    /\ future_state[t] = "finished"
    /\ LET g == Gather(merged_factors_list, t, worker_outcome[t])
       IN /\ merged_factors_list' = g.list
          /\ pool_pc' = IF g.raised THEN "raised" ELSE pool_pc
    /\ future_state' = [future_state EXCEPT ![t] = "yielded"]
    /\ UNCHANGED <<worker_outcome, pool_result>>
    /\ UNCHANGED poolOthers

\* lines 83-86: every future was yielded; concatenate and return
ReturnMerged ==
    /\ pool_pc = "gather"
    /\ \A t \in PoolTickers : future_state[t] = "yielded"
    /\ pool_result' = Concat(merged_factors_list)
    /\ pool_pc' = "done"
    /\ UNCHANGED <<worker_outcome, future_state, merged_factors_list>>
    /\ UNCHANGED poolOthers

PoolNext ==
    \/ SubmitAll
    \/ \E t \in PoolTickers : WorkerStarts(t)
    \/ \E t \in PoolTickers : WorkerFinishes(t)
    \/ \E t \in PoolTickers : GatherResult(t)
    \/ ReturnMerged

SpecPool == PoolInit /\ [][PoolNext]_vars

-----------------------------------------------------------------------------
(* FiveCategoryDivision.create_target *)

MaxBlockRows == 3

\* line 21: the inner bin edges (the outer ones are -inf and inf), and
\* line 23: the labels
Bins == <<-10, 0, 5, 10>>
Labels == <<0, 1, 2, 3, 4>>

\* Close prices (positive).  From 100 the changes to 90, 100, 105, 110
\* and 112 are exactly -10 %, 0 %, 5 %, 10 % and 12 %.
TargetPrices == {90, 100, 105, 110, 112}
SecondPrices == {100, 112}

\* pd.cut with right=False: a bin holds its left edge
CutLeftClosed(prev, cur) ==
    Labels[1 + Cardinality({k \in DOMAIN Bins : 100 * (cur - prev) >= Bins[k] * prev})]

\* lines 38-40: close.pct_change() * 100 of a row with close cur whose
\* previous row has close prev > 0, cut into the bins; a bin holds its right
\* edge (pd.cut, right=True), so the label counts the edges below the change
Cut(prev, cur) ==
    Labels[1 + Cardinality({k \in DOMAIN Bins : 100 * (cur - prev) > Bins[k] * prev})]

\* lines 35-50 on the rows of a DataFrame with a close column: the label of
\* row i+1 (its change from row i) is shifted to row i; the last row, whose
\* shifted label is NaN, is dropped
CreateTarget(df) ==
    [i \in 1..(Len(df) - 1) |->
        [Ticker |-> df[i].Ticker, date |-> df[i].date, close |-> df[i].close,
         target |-> Cut(df[i].close, df[i + 1].close)]]

\* The panel of one symbol: rows on days 1..k in date order.
CloseSeries(prices) == UNION {[1..k -> prices] : k \in 1..MaxBlockRows}
Block(sym, closes) ==
    [i \in DOMAIN closes |-> [Ticker |-> sym, date |-> i, close |-> closes[i]]]

\* The DataFrames create_target is applied to: the panel of one symbol, or
\* the concatenation of the panels of two.
TargetInputs ==
    {Block("A", c) : c \in CloseSeries(TargetPrices)}
    \cup {Block("A", c) \o Block("B", e) :
             c \in CloseSeries(TargetPrices), e \in CloseSeries(SecondPrices)}

TargetInit ==
    /\ PriceIdle
    /\ BuildIdle
    /\ RankIdle
    /\ SelectorIdle
    /\ EquityIdle
    /\ WalkIdle
    /\ TimelineIdle
    /\ PanelIdle
    /\ PoolIdle
    /\ target_df \in TargetInputs
    /\ target_out = <<>>
    /\ target_pc = "start"

\* lines 27-50
CreateTargetCall ==
    /\ target_pc = "start"
    /\ target_out' = CreateTarget(target_df)
    /\ target_pc' = "done"
    /\ UNCHANGED target_df
    /\ UNCHANGED tgOthers

TargetNext == CreateTargetCall

SpecTarget == TargetInit /\ [][TargetNext]_vars

-----------------------------------------------------------------------------
(* main: target, scaling, split and the walk-forward loop *)

TrainQuarters == 1
TestQuarters == 3

\* config.py: START_DATE is day 0, TRAIN_END_DATE the first day of a
\* quarter, END_DATE the last day of a quarter
TrainEndDate == TrainQuarters * DaysPerQuarter
EndDate == (TrainQuarters + TestQuarters) * DaysPerQuarter - 1

WalkSymbols == {"A", "B"}
WalkPrices == {100, 106, 112}

\* lines 21-31: generate_quarterly_dates(start_date, end_date); the start
\* date is put in front when it is no quarter start
GenerateQuarterlyDates(start, end) ==
    LET qs == SetToSortedSeq(QuarterStartsBetween(start, end))
    IN IF start \in Range(qs) THEN qs ELSE <<start>> \o qs

\* line 130
Quarters == GenerateQuarterlyDates(TrainEndDate, EndDate)

\* The days a symbol has a panel row on: the first and the last day of
\* every quarter from START_DATE to END_DATE.
RowDays ==
    {d \in 0..EndDate : d % DaysPerQuarter = 0 \/ (d + 1) % DaysPerQuarter = 0}

\* The rows of one symbol from day first up to day last, in date order; its
\* close is low before day step and 112 from day step on.
SymbolRows(sym, first, last, step, low) ==
    LET days == SetToSortedSeq({d \in RowDays : first <= d /\ d <= last})
    IN [i \in DOMAIN days |->
           [Ticker |-> sym, date |-> days[i],
            close |-> IF days[i] < step THEN low ELSE 112]]

\* The cleaned panel: symbol A has its first row a day after START_DATE and
\* closes at 100, from TRAIN_END_DATE on at 112 or never; symbol B has its
\* first row on START_DATE, its last before TRAIN_END_DATE or on END_DATE,
\* and closes at 106.
WalkPanels ==
    {SymbolRows("A", 1, EndDate, stepA, 100) \o SymbolRows("B", 0, lastB, EndDate + 1, 106) :
        stepA \in {TrainEndDate, EndDate + 1}, lastB \in {TrainEndDate - 1, EndDate}}

\* The timeline CSV: a snapshot for every quarter start from the quarter
\* before TRAIN_END_DATE on (as process_quarterly_changes writes it), each
\* with one constituent at least, or a snapshot for at most two of the
\* quarter starts, with or without constituents.
SnapshotDays == QuarterStartsBetween(TrainEndDate - DaysPerQuarter, EndDate)
Universes == {{}, {"A"}, {"A", "B"}}
Timelines ==
    [SnapshotDays -> Universes \ {{}}]
    \cup UNION {[D -> Universes] :
                    D \in {E \in SUBSET SnapshotDays : Cardinality(E) <= 2}}

\* sklearn MinMaxScaler on a numeric column: (x - min) / (max - min), and
\* 0 when the column is constant.  The scaled value is kept as a fraction.
Scaled(x, lo, hi) ==
    IF hi = lo THEN [num |-> 0, den |-> 1] ELSE [num |-> x - lo, den |-> hi - lo]

SetMin(S) == CHOOSE x \in S : \A y \in S : x <= y
SetMax(S) == CHOOSE x \in S : \A y \in S : x >= y

\* min_max_scaling.py lines 20-23: fit and transform on the whole frame;
\* date, Ticker and the categorical target are not numeric columns
MinMaxTransform(df) ==
    LET closes == {df[i].close : i \in DOMAIN df}
    IN [i \in DOMAIN df |->
           [Ticker |-> df[i].Ticker, date |-> df[i].date,
            close |-> Scaled(df[i].close, SetMin(closes), SetMax(closes)),
            target |-> df[i].target]]

\* a row of scaled_df as a row of the training state; the prediction
\* columns exist only on scored rows (NaN elsewhere after pd.concat)
AsTrainRow(r) ==
    [Ticker |-> r.Ticker, date |-> r.date, close |-> r.close,
     target |-> r.target, target_pred |-> -1, target_pred_proba |-> -1]

\* line 101: train_data = scaled_df[date < TRAIN_END_DATE]
TrainSplit(df) == SelectSeq(df, LAMBDA r : r.date < TrainEndDate)

\* line 102: test_data = scaled_df[date >= TRAIN_END_DATE]
TestSplit(df) == SelectSeq(df, LAMBDA r : r.date >= TrainEndDate)

\* lines 139-148 with the latest snapshot of the whole timeline as the
\* fallback
ActiveConstituentsLatest(tl, q) ==
    IF q \in DOMAIN tl THEN tl[q]
    ELSE IF DOMAIN tl # {} THEN tl[SetMax(DOMAIN tl)] ELSE {}

\* lines 139-148: the snapshot dated q, else the latest one before q, else []
ActiveConstituents(tl, q) ==
    IF q \in DOMAIN tl THEN tl[q]
    ELSE LET past == {d \in DOMAIN tl : d < q}
         IN IF past # {} THEN tl[SetMax(past)] ELSE {}

\* df[df["Ticker"].isin(active)]
IsIn(df, active) == SelectSeq(df, LAMBDA r : r.Ticker \in active)

\* lines 157-161 without the upper bound of the quarter
TestQuarterRowsUnbounded(df, pos) ==
    SelectSeq(df, LAMBDA r : r.date >= Quarters[pos])

\* lines 157-161: the test rows of the quarter at position pos
TestQuarterRows(df, pos) ==
    IF pos < Len(Quarters)
    THEN SelectSeq(df, LAMBDA r : r.date >= Quarters[pos] /\ r.date < Quarters[pos + 1])
    ELSE SelectSeq(df, LAMBDA r : r.date >= Quarters[pos])

\* How an iteration that has training and test rows ends: an exception in
\* feature selection (lines 172-178), in the preparation of the sets
\* (181-187), in training, prediction or scoring (191-193), in predict_proba
\* (194), none, or an exception while the predictions are attached (199),
\* where no try block is open.  XGBoostModel as defined in xg_boost.py has
\* no predict_proba: with it every iteration that gets to line 194 ends in
\* "predict_proba_error" (an AttributeError, caught at line 195).  "scored"
\* is the outcome with a model object whose predict_proba returns one value
\* per row, "attach_error" with one that returns a row per class.
QuarterOutcomes ==
    {"feature_selection_error", "prepare_error", "model_error",
     "predict_proba_error", "scored", "attach_error"}

\* the line an iteration raised at
RaisedAt(outcome) ==
    CASE outcome = "feature_selection_error" -> 173
      [] outcome = "prepare_error" -> 182
      [] outcome = "model_error" -> 191
      [] outcome = "predict_proba_error" -> 194
      [] outcome = "attach_error" -> 199
      [] OTHER -> 0

\* What the fitted model predicts for the test rows: the class by symbol and
\* the probability by date, rising or falling.
Predictors == {"prefers_A_late", "prefers_B_early"}
PredictedClass(p, r) ==
    IF (p = "prefers_A_late") = (r.Ticker = "A") THEN 4 ELSE 1
PredictedProba(p, r) ==
    IF p = "prefers_A_late" THEN r.date ELSE EndDate - r.date

\* lines 199-200: the prediction columns on the test rows
WithPredictions(df, p) ==
    [i \in DOMAIN df |->
        [Ticker |-> df[i].Ticker, date |-> df[i].date, close |-> df[i].close,
         target |-> df[i].target,
         target_pred |-> PredictedClass(p, df[i]),
         target_pred_proba |-> PredictedProba(p, df[i])]]

\* line 201 with by=["target_pred"] only
RanksBeforeClassOnly(a, b) == a.target_pred >= b.target_pred

\* line 201: sort_values(by=["target_pred", "target_pred_proba"],
\* ascending=[False, False])
RanksBefore(a, b) ==
    \/ a.target_pred > b.target_pred
    \/ a.target_pred = b.target_pred /\ a.target_pred_proba >= b.target_pred_proba

RECURSIVE InsertByRank(_, _)
InsertByRank(s, r) ==
    IF s = <<>> THEN <<r>>
    ELSE IF RanksBefore(Head(s), r)
         THEN <<Head(s)>> \o InsertByRank(Tail(s), r)
         ELSE <<r>> \o s

RECURSIVE SortByRank(_)
SortByRank(df) ==
    IF df = <<>> THEN <<>>
    ELSE InsertByRank(SortByRank(SubSeq(df, 1, Len(df) - 1)), df[Len(df)])

\* line 202: test_active["Ticker"].head(5).tolist()
TopK == 5
HeadTickers(df) ==
    [i \in 1..(IF Len(df) < TopK THEN Len(df) ELSE TopK) |-> df[i].Ticker]

WalkInit ==
    /\ PriceIdle
    /\ BuildIdle
    /\ RankIdle
    /\ SelectorIdle
    /\ EquityIdle
    /\ TimelineIdle
    /\ PanelIdle
    /\ PoolIdle
    /\ TargetIdle
    /\ merged_df \in WalkPanels
    /\ timeline_df \in Timelines
    /\ train_data = <<>>
    /\ train_columns = {}
    /\ test_data = <<>>
    /\ predictions = <<>>
    /\ quarter_pos = 0
    /\ current_quarter = 0
    /\ active_constituents = {}
    /\ train_active = <<>>
    /\ test_active = <<>>
    /\ raised_at = 0
    /\ wf_pc = "start"

\* lines 82-132: target, scaling, the train/test split, the quarters
PrepareData ==
    /\ wf_pc = "start"
    /\ LET scaled_df == MinMaxTransform(CreateTarget(merged_df))
           rows == [i \in DOMAIN scaled_df |-> AsTrainRow(scaled_df[i])]
       IN /\ train_data' = TrainSplit(rows)
          /\ test_data' = TestSplit(rows)
    /\ train_columns' = {"date", "Ticker", "close", "target"}
    /\ predictions' = <<>>
    /\ quarter_pos' = 1
    /\ wf_pc' = "loop"
    /\ UNCHANGED <<merged_df, timeline_df, current_quarter, active_constituents,
                   train_active, test_active, raised_at>>
    /\ UNCHANGED wfOthers

\* lines 152-154, 164-166, 176-178, 185-187, 195-197: every continue comes
\* before line 210, and only line 210-211 assign train_data
UpdatedTrainDataEveryQuarter(result, td, active, ranked) == IsIn(td, active) \o ranked

\* lines 209-211 without the filter of line 210
UpdatedTrainDataUnfiltered(result, td, active, ranked) ==
    IF result = "scored" THEN td \o ranked ELSE td

\* lines 209-211: the training state after an iteration
UpdatedTrainData(result, td, active, ranked) ==
    IF result = "scored" THEN IsIn(td, active) \o ranked ELSE td

\* how an iteration can end, given its filtered training and test rows
QuarterResults(ta, tq) ==
    IF ta = <<>> THEN {"no_train"}          \* lines 152-154
    ELSE IF tq = <<>> THEN {"no_test"}      \* lines 164-166
    ELSE QuarterOutcomes

\* lines 135-211: one iteration of the loop over the quarters
QuarterStep ==
    /\ wf_pc = "loop"
    /\ quarter_pos <= Len(Quarters)
    /\ LET q == Quarters[quarter_pos]
           active == ActiveConstituents(timeline_df, q)
           ta == IsIn(train_data, active)
           tq == IsIn(TestQuarterRows(test_data, quarter_pos), active)
       IN /\ current_quarter' = q
          /\ active_constituents' = active
          /\ train_active' = ta
          /\ \E result \in QuarterResults(ta, tq) :
                /\ raised_at' = RaisedAt(result)
                /\ IF result = "scored"
                   THEN \* lines 199-211
                        \E p \in Predictors :
                           LET ranked == SortByRank(WithPredictions(tq, p))
                           IN /\ test_active' = ranked
                              /\ predictions' = Append(predictions,
                                    [Quarter |-> q, Top5_Tickers |-> HeadTickers(ranked)])
                              /\ train_data' =
                                    UpdatedTrainData(result, train_data, active, ranked)
                              /\ train_columns' = train_columns
                                    \cup {"target_pred_proba", "target_pred"}
                   ELSE \* a continue, or the exception of line 199
                        /\ test_active' = IF result = "no_train" THEN test_active ELSE tq
                        /\ predictions' = predictions
                        /\ train_data' = UpdatedTrainData(result, train_data, active, tq)
                        /\ train_columns' = train_columns
                \* the exception of line 199 leaves the loop and main
                /\ IF result = "attach_error"
                   THEN wf_pc' = "aborted" /\ quarter_pos' = quarter_pos
                   ELSE wf_pc' = wf_pc /\ quarter_pos' = quarter_pos + 1
    /\ UNCHANGED <<merged_df, timeline_df, test_data>>
    /\ UNCHANGED wfOthers

\* lines 213-222: the loop is over
FinishWalk ==
    /\ wf_pc = "loop"
    /\ quarter_pos > Len(Quarters)
    /\ wf_pc' = "done"
    /\ UNCHANGED <<merged_df, timeline_df, train_data, train_columns, test_data,
                   predictions, quarter_pos, current_quarter, active_constituents,
                   train_active, test_active, raised_at>>
    /\ UNCHANGED wfOthers

WalkNext == PrepareData \/ QuarterStep \/ FinishWalk

SpecWalk == WalkInit /\ [][WalkNext]_vars

-----------------------------------------------------------------------------
(* main: the ranking of a scored quarter, on test sets with more rows than
   the list is long *)

MaxTestRows == 8

RankSymbols == <<"A", "B", "C">>
RankUniverses == {{}, {"A"}, {"A", "B"}, {"A", "B", "C"}}

\* test_quarter (lines 157-161): n rows, one symbol after the other, day
\* after day
TestQuarterFrame(n) ==
    [i \in 1..n |->
        [Ticker |-> RankSymbols[((i - 1) % Len(RankSymbols)) + 1],
         date |-> (i - 1) \div Len(RankSymbols)]]

\* what xgb_model.predict and predict_proba give for a row: the class and
\* the probability, in tenths
ModelOutputs ==
    {[pred |-> 4, proba |-> 7], [pred |-> 4, proba |-> 2], [pred |-> 1, proba |-> 7]}

\* lines 199-200: the prediction columns on the rows of test_active
AttachPredictions(df, outs) ==
    [i \in DOMAIN df |->
        [Ticker |-> df[i].Ticker, date |-> df[i].date,
         target_pred |-> outs[i].pred, target_pred_proba |-> outs[i].proba]]

RankInit ==
    /\ PriceIdle
    /\ BuildIdle
    /\ SelectorIdle
    /\ EquityIdle
    /\ WalkIdle
    /\ TimelineIdle
    /\ PanelIdle
    /\ PoolIdle
    /\ TargetIdle
    /\ \E n \in 0..MaxTestRows : rank_test_quarter = TestQuarterFrame(n)
    /\ rank_active \in RankUniverses
    /\ rank_test_active = <<>>
    /\ top5 = <<>>
    /\ rank_pc = "start"

\* line 163: test_active = test_quarter[Ticker.isin(active_constituents)]
FilterTestQuarter ==
    /\ rank_pc = "start"
    /\ rank_test_active' = IsIn(rank_test_quarter, rank_active)
    /\ rank_pc' = "filtered"
    /\ UNCHANGED <<rank_test_quarter, rank_active, top5>>
    /\ UNCHANGED rkOthers

\* lines 164-166: no test rows, the quarter is skipped
SkipEmptyTestQuarter ==
    /\ rank_pc = "filtered"
    /\ rank_test_active = <<>>
    /\ rank_pc' = "skipped"
    /\ UNCHANGED <<rank_test_quarter, rank_active, rank_test_active, top5>>
    /\ UNCHANGED rkOthers

\* lines 199-202: the predictions are attached, the rows sorted, the head
\* taken
RankTestActive ==
    /\ rank_pc = "filtered"
    /\ rank_test_active # <<>>
    /\ \E outs \in [DOMAIN rank_test_active -> ModelOutputs] :
          LET ranked == SortByRank(AttachPredictions(rank_test_active, outs))
          IN /\ rank_test_active' = ranked
             /\ top5' = HeadTickers(ranked)
    /\ rank_pc' = "done"
    /\ UNCHANGED <<rank_test_quarter, rank_active>>
    /\ UNCHANGED rkOthers

RankNext == FilterTestQuarter \/ SkipEmptyTestQuarter \/ RankTestActive

SpecRank == RankInit /\ [][RankNext]_vars

-----------------------------------------------------------------------------
(* main: process_tickers, the cleaning of the merged panel, create_target *)

MaxPanelRows == 2

BuildTickers == {"A", "B"}

\* A cell of the factor column: a value, named by the row it was observed
\* in (its symbol and date), NaN, inf, or the 0 of fillna(0).
Observed(sym, d) == [kind |-> "value", sym |-> sym, src |-> d]
Missing == [kind |-> "nan", sym |-> "", src |-> 0]
Infinite == [kind |-> "inf", sym |-> "", src |-> 0]
Zero == [kind |-> "zero", sym |-> "", src |-> 0]

CellKinds == {"value", "nan", "inf"}
MakeCell(kind, sym, d) ==
    CASE kind = "value" -> Observed(sym, d)
      [] kind = "nan" -> Missing
      [] OTHER -> Infinite

\* the close of a symbol day after day: 100 throughout, or 112 from the
\* second row on
CloseProfiles == {"flat", "rises"}
ProfileClose(profile, d) == IF profile = "rises" /\ d > 1 THEN 112 ELSE 100

\* The panel process_ticker returns for a symbol: a row a day, in date
\* order, with date, Ticker, close and one factor column.
TickerPanel(sym, profile, kinds) ==
    [d \in 1..MaxPanelRows |->
        [Ticker |-> sym, date |-> d, close |-> ProfileClose(profile, d),
         factor |-> MakeCell(kinds[d], sym, d)]]

TickerPanels(sym) ==
    {TickerPanel(sym, profile, kinds) :
        profile \in CloseProfiles, kinds \in [1..MaxPanelRows -> CellKinds]}

\* the orders in which the futures of the tickers can complete
CompletionOrders ==
    {o \in [1..Cardinality(BuildTickers) -> BuildTickers] :
        \A i, j \in DOMAIN o : i # j => o[i] # o[j]}

\* processing_tickers.py lines 74-84: the panels are appended as their
\* futures complete and concatenated in that order
ProcessTickers(panels, order) == Concat([i \in DOMAIN order |-> panels[order[i]]])

WithFactor(r, cell) ==
    [Ticker |-> r.Ticker, date |-> r.date, close |-> r.close, factor |-> cell]

\* line 70: replace([np.inf, -np.inf], np.nan)
ReplaceInf(df) ==
    [i \in DOMAIN df |->
        IF df[i].factor.kind = "inf" THEN WithFactor(df[i], Missing) ELSE df[i]]

\* line 72: fillna(method="ffill") on the whole frame: a NaN takes the last
\* value in the rows above it
FillForward(df) ==
    LET filled[i \in DOMAIN df] ==
            IF df[i].factor.kind = "nan" /\ i > 1 THEN filled[i - 1] ELSE df[i].factor
    IN [i \in DOMAIN df |-> WithFactor(df[i], filled[i])]

\* line 73: fillna(method="bfill") on the whole frame: a NaN takes the next
\* value in the rows below it
FillBackward(df) ==
    LET filled[k \in 0..(Len(df) - 1)] ==
            LET i == Len(df) - k
            IN IF df[i].factor.kind = "nan" /\ k > 0 THEN filled[k - 1] ELSE df[i].factor
    IN [i \in DOMAIN df |-> WithFactor(df[i], filled[Len(df) - i])]

\* line 74: fillna(0)
FillZero(df) ==
    [i \in DOMAIN df |->
        IF df[i].factor.kind = "nan" THEN WithFactor(df[i], Zero) ELSE df[i]]

\* lines 70-74
Clean(df) == FillZero(FillBackward(FillForward(ReplaceInf(df))))

\* line 85: create_target adds the target column and drops the last row;
\* the other columns stay
WithTarget(df) ==
    LET out == CreateTarget(df)
    IN [i \in DOMAIN out |->
           [Ticker |-> df[i].Ticker, date |-> df[i].date, close |-> df[i].close,
            factor |-> df[i].factor, target |-> out[i].target]]

BuildInit ==
    /\ PriceIdle
    /\ RankIdle
    /\ SelectorIdle
    /\ EquityIdle
    /\ WalkIdle
    /\ TimelineIdle
    /\ PanelIdle
    /\ PoolIdle
    /\ TargetIdle
    /\ ticker_panels \in [BuildTickers -> UNION {TickerPanels(sym) : sym \in BuildTickers}]
    /\ \A sym \in BuildTickers : ticker_panels[sym] \in TickerPanels(sym)
    /\ completion_order = <<>>
    /\ build_df = <<>>
    /\ build_pc = "start"

\* main line 60: process_tickers returns the panels in completion order
ProcessTickersCall ==
    /\ build_pc = "start"
    /\ \E order \in CompletionOrders :
          /\ completion_order' = order
          /\ build_df' = ProcessTickers(ticker_panels, order)
    /\ build_pc' = "merged"
    /\ UNCHANGED ticker_panels
    /\ UNCHANGED bdOthers

\* main lines 70-74
CleanMerged ==
    /\ build_pc = "merged"
    /\ build_df' = Clean(build_df)
    /\ build_pc' = "cleaned"
    /\ UNCHANGED <<ticker_panels, completion_order>>
    /\ UNCHANGED bdOthers

\* main lines 83-88
CreateTargetOfMerged ==
    /\ build_pc = "cleaned"
    /\ build_df' = WithTarget(build_df)
    /\ build_pc' = "labeled"
    /\ UNCHANGED <<ticker_panels, completion_order>>
    /\ UNCHANGED bdOthers

BuildNext == ProcessTickersCall \/ CleanMerged \/ CreateTargetOfMerged

SpecBuild == BuildInit /\ [][BuildNext]_vars

-----------------------------------------------------------------------------
(* CummulativeImportanceSelector *)

MaxFeatures == 3

\* self.df.columns
FeatureNames == <<"factor1", "factor2", "factor3", "factor4", "factor5">>
Columns(n) == SubSeq(FeatureNames, 1, n)

\* Importance scores are integers in units of 1/ImportanceScale, the
\* relative tolerance of np.isclose (rtol = 1e-05).
ImportanceScale == 100000
ImportanceValues == {0, 1, 20000, 80000}

Frac(n, d) == [num |-> n, den |-> d]

\* the threshold argument: 0, 0.5, 0.8 (the default), 1 and 1.2
Thresholds == {Frac(0, 10), Frac(5, 10), Frac(8, 10), Frac(10, 10), Frac(12, 10)}

\* The models handed to the constructor, built from one vector v of scores:
\* a tree model (feature_importances_ = v), a linear model with a 1-D coef_
\* (-v), a linear model with a 2-D coef_ (rows v and -3v), an object with
\* both attributes (coef_ empty), and an object with neither.
ModelKinds == {"tree", "linear_1d", "linear_2d", "both", "neither"}
MakeModel(kind, v) ==
    [attrs |-> CASE kind = "tree" -> {"feature_importances_"}
                 [] kind \in {"linear_1d", "linear_2d"} -> {"coef_"}
                 [] kind = "both" -> {"feature_importances_", "coef_"}
                 [] OTHER -> {},
     feature_importances_ |-> v,
     coef_ |-> CASE kind = "linear_1d" ->
                      [ndim |-> 1, rows |-> <<[j \in DOMAIN v |-> 0 - v[j]]>>]
                 [] kind = "linear_2d" ->
                      [ndim |-> 2, rows |-> <<v, [j \in DOMAIN v |-> 0 - 3 * v[j]]>>]
                 [] OTHER -> [ndim |-> 1, rows |-> <<<<>>>>]]

\* hasattr(self.model, name)
HasAttr(m, name) == name \in m.attrs

Abs(x) == IF x < 0 THEN 0 - x ELSE x

RECURSIVE SumSeq(_)
SumSeq(s) == IF s = <<>> THEN 0 ELSE Head(s) + SumSeq(Tail(s))

\* lines 49-51 and 68-70: np.abs(coef_), averaged over axis 0 when coef_ has
\* more than one dimension
CoefImportances(c) ==
    IF c.ndim > 1
    THEN [j \in DOMAIN c.rows[1] |->
             SumSeq([i \in DOMAIN c.rows |-> Abs(c.rows[i][j])]) \div Len(c.rows)]
    ELSE [j \in DOMAIN c.rows[1] |-> Abs(c.rows[1][j])]

\* lines 45-51 and 65-70
Importances(m, type) ==
    IF type = "feature_importances_" THEN m.feature_importances_
    ELSE CoefImportances(m.coef_)

\* lines 32-39; "" stands for the AttributeError
ImportanceTypeOf(m) ==
    IF HasAttr(m, "feature_importances_") THEN "feature_importances_"
    ELSE IF HasAttr(m, "coef_") THEN "coef_"
    ELSE ""

\* line 41 with 0 <= in place of 0 <
ThresholdInRangeClosed(t) == 0 <= t.num /\ t.num <= t.den

\* line 41: 0 < self.threshold <= 1
ThresholdInRange(t) == 0 < t.num /\ t.num <= t.den

\* lines 23-53: what _validate_inputs ends with
ValidateInputs(m, columns, t) ==
    IF ImportanceTypeOf(m) = "" THEN "AttributeError"
    ELSE IF ~ThresholdInRange(t) THEN "ValueError"
    ELSE IF Len(Importances(m, ImportanceTypeOf(m))) # Len(columns) THEN "ValueError"
    ELSE "ok"

\* line 74: np.isclose(total_importance, 1.0), that is
\* |total - 1| <= 1e-08 + 1e-05 * 1
IsCloseToOne(total) == (total - ImportanceScale) \in -1..1

\* lines 72-75: the importances are fractions w / den with one denominator:
\* the total when they are normalised, the scale when they are left alone.
\* A total of 0 gives NaN scores (den 0).
ImportanceDen(total) == IF IsCloseToOne(total) THEN ImportanceScale ELSE total

\* lines 78-80: sorted(zip(features, importances), key=importance,
\* reverse=True); the sort is stable, and with NaN keys nothing moves
RECURSIVE InsertByImportance(_, _)
InsertByImportance(s, p) ==
    IF s = <<>> THEN <<p>>
    ELSE IF Head(s).importance >= p.importance
         THEN <<Head(s)>> \o InsertByImportance(Tail(s), p)
         ELSE <<p>> \o s

RECURSIVE SortByImportance(_)
SortByImportance(pairs) ==
    IF pairs = <<>> THEN <<>>
    ELSE InsertByImportance(SortByImportance(SubSeq(pairs, 1, Len(pairs) - 1)),
                            pairs[Len(pairs)])

\* line 88: cumulative_importance >= self.threshold, False for NaN
ReachesThreshold(cum, den, t) == den # 0 /\ cum * t.den >= t.num * den

\* lines 82-89: the loop over the sorted pairs from position i on
RECURSIVE AcceptFrom(_, _, _, _, _)
AcceptFrom(pairs, i, cum, den, t) ==
    IF i > Len(pairs) THEN <<>>
    ELSE LET c == cum + pairs[i].importance
         IN IF ReachesThreshold(c, den, t)
            THEN <<pairs[i].feature>>
            ELSE <<pairs[i].feature>> \o AcceptFrom(pairs, i + 1, c, den, t)

\* lines 55-91
SelectFeatures(m, columns, type, t) ==
    LET importances == Importances(m, type)
        den == ImportanceDen(SumSeq(importances))
        n == IF Len(columns) < Len(importances) THEN Len(columns) ELSE Len(importances)
        pairs == [i \in 1..n |-> [feature |-> columns[i], importance |-> importances[i]]]
        ordered == IF den = 0 THEN pairs ELSE SortByImportance(pairs)
    IN AcceptFrom(ordered, 1, 0, den, t)

SelectorInit ==
    /\ PriceIdle
    /\ BuildIdle
    /\ RankIdle
    /\ TimelineIdle
    /\ PanelIdle
    /\ PoolIdle
    /\ TargetIdle
    /\ WalkIdle
    /\ EquityIdle
    /\ \E kind \in ModelKinds, v \in SeqsUpTo(ImportanceValues, MaxFeatures) :
          selector_model = MakeModel(kind, v)
    /\ \E n \in 0..MaxFeatures : selector_df = Columns(n)
    /\ threshold \in Thresholds
    /\ importance_type = ""
    /\ selected_features = <<>>
    /\ sel_pc = "new"

\* lines 10-53: the constructor; when _validate_inputs raises there is no
\* selector object
Construct ==
    /\ sel_pc = "new"
    /\ IF ValidateInputs(selector_model, selector_df, threshold) = "ok"
       THEN /\ importance_type' = ImportanceTypeOf(selector_model)
            /\ sel_pc' = "constructed"
       ELSE /\ importance_type' = ""
            /\ sel_pc' = "error"
    /\ UNCHANGED <<selector_model, selector_df, threshold, selected_features>>
    /\ UNCHANGED selOthers

\* lines 55-91: select_features on a constructed selector
SelectFeaturesCall ==
    /\ sel_pc = "constructed"
    /\ selected_features' =
          SelectFeatures(selector_model, selector_df, importance_type, threshold)
    /\ sel_pc' = "selected"
    /\ UNCHANGED <<selector_model, selector_df, threshold, importance_type>>
    /\ UNCHANGED selOthers

SelectorNext == Construct \/ SelectFeaturesCall

SpecSelector == SelectorInit /\ [][SelectorNext]_vars

-----------------------------------------------------------------------------
(* EquityCurve.compute_equity_curve *)

MaxRecords == 2

\* initial_equity, the default of the constructor
InitialEquity == 100

EquityTickers == {"A", "B"}

\* the Top5_Tickers lists of the prediction records
PickLists == {<<>>, <<"A">>, <<"B">>, <<"A", "B">>}

\* the Quarter dates of the records lie in 1..MaxRecords; overall_end_date
\* is the day after the last of them or, misconfigured, day 0
RecordDays == 1..MaxRecords
OverallEndDates == {0, MaxRecords + 1}

\* what _get_price_on_date returns: None or a price
None == [none |-> TRUE, p |-> 0]
Price(p) == [none |-> FALSE, p |-> p]

\* How the price of a ticker runs over the days: 10 then 11 (+10 % from day
\* 1 to day 2), 20 then 19 (-5 % from day 2 to day 3), 10 throughout, no
\* price at all, a price of 10 up to day 1 and none afterwards, and a price
\* of 0 up to day 1.
PriceProfiles == {"rises", "falls", "flat", "unlisted", "delisted", "zero_start"}
ProfilePrice(profile, d) ==
    CASE profile = "rises" -> Price(IF d <= 1 THEN 10 ELSE 11)
      [] profile = "falls" -> Price(IF d <= 2 THEN 20 ELSE 19)
      [] profile = "flat" -> Price(10)
      [] profile = "delisted" -> IF d <= 1 THEN Price(10) ELSE None
      [] profile = "zero_start" -> Price(IF d <= 1 THEN 0 ELSE 10)
      [] OTHER -> None

\* self.predictions_df as _load_predictions leaves it: the records in
\* ascending order of Quarter
FrameOn(D, picks) ==
    LET days == SetToSortedSeq(D)
    IN [i \in DOMAIN days |-> [Quarter |-> days[i], Top5_Tickers |-> picks[i]]]

RECURSIVE Gcd(_, _)
Gcd(a, b) == IF b = 0 THEN a ELSE Gcd(b, a % b)

\* exact fractions in lowest terms with a positive denominator
Reduced(n, d) ==
    LET g == Gcd(Abs(n), d)
    IN Frac(n \div g, d \div g)
FracAdd(x, y) == Reduced(x.num * y.den + y.num * x.den, x.den * y.den)
FracMul(x, y) == Reduced(x.num * y.num, x.den * y.den)

RECURSIVE FracSum(_)
FracSum(s) == IF s = <<>> THEN Frac(0, 1) ELSE FracAdd(Head(s), FracSum(Tail(s)))

\* line 140 without the test of the end price
HasReturnStartOnly(ps, pe) == ~ps.none /\ ps.p # 0

\* line 140: both prices are there and the start price is not 0
HasReturn(ps, pe) == ~ps.none /\ ~pe.none /\ ps.p # 0

\* lines 136-142: the returns of the picks of one record
ReturnsOf(prices, picks, quarter_start, quarter_end) ==
    LET kept == SelectSeq(picks, LAMBDA t :
                    HasReturn(prices[t][quarter_start], prices[t][quarter_end]))
    IN [i \in DOMAIN kept |->
           Reduced(prices[kept[i]][quarter_end].p - prices[kept[i]][quarter_start].p,
                   prices[kept[i]][quarter_start].p)]

\* line 143: np.mean(returns) if returns else 0
AvgReturn(returns) ==
    IF returns = <<>> THEN Frac(0, 1)
    ELSE FracMul(FracSum(returns), Frac(1, Len(returns)))

\* lines 131-134
QuarterEnd(frame, i, overall_end) ==
    IF i < Len(frame) THEN frame[i + 1].Quarter ELSE overall_end

\* line 152: curve_df.sort_values('QuarterEnd')
RECURSIVE InsertByQuarterEnd(_, _)
InsertByQuarterEnd(s, r) ==
    IF s = <<>> THEN <<r>>
    ELSE IF Head(s).QuarterEnd <= r.QuarterEnd
         THEN <<Head(s)>> \o InsertByQuarterEnd(Tail(s), r)
         ELSE <<r>> \o s

RECURSIVE SortByQuarterEnd(_)
SortByQuarterEnd(c) ==
    IF c = <<>> THEN <<>>
    ELSE InsertByQuarterEnd(SortByQuarterEnd(SubSeq(c, 1, Len(c) - 1)), c[Len(c)])

EquityInit ==
    /\ PriceIdle
    /\ BuildIdle
    /\ RankIdle
    /\ TimelineIdle
    /\ PanelIdle
    /\ PoolIdle
    /\ TargetIdle
    /\ WalkIdle
    /\ SelectorIdle
    /\ \E D \in SUBSET RecordDays :
          \E picks \in [1..Cardinality(D) -> PickLists] :
             predictions_df = FrameOn(D, picks)
    /\ overall_end_date \in OverallEndDates
    /\ \E profile \in [EquityTickers -> PriceProfiles] :
          price_on_date = [t \in EquityTickers |->
                              [d \in 0..(MaxRecords + 1) |-> ProfilePrice(profile[t], d)]]
    /\ equity = Frac(0, 1)
    /\ curve = <<>>
    /\ row_pos = 0
    /\ eq_pc = "start"

\* lines 119-124: no records, an empty frame is returned; else the loop starts
StartCurve ==
    /\ eq_pc = "start"
    /\ IF predictions_df = <<>>
       THEN /\ eq_pc' = "done"
            /\ UNCHANGED <<equity, row_pos>>
       ELSE /\ eq_pc' = "loop"
            /\ equity' = Frac(InitialEquity, 1)
            /\ row_pos' = 1
    /\ curve' = <<>>
    /\ UNCHANGED <<predictions_df, overall_end_date, price_on_date>>
    /\ UNCHANGED eqOthers

\* lines 128-148: one record
CurveStep ==
    /\ eq_pc = "loop"
    /\ row_pos <= Len(predictions_df)
    /\ LET row == predictions_df[row_pos]
           quarter_end == QuarterEnd(predictions_df, row_pos, overall_end_date)
           returns == ReturnsOf(price_on_date, row.Top5_Tickers, row.Quarter, quarter_end)
           grown == FracMul(equity, FracAdd(Frac(1, 1), AvgReturn(returns)))
       IN /\ equity' = grown
          /\ curve' = Append(curve, [QuarterEnd |-> quarter_end, Equity |-> grown])
    /\ row_pos' = row_pos + 1
    /\ UNCHANGED <<predictions_df, overall_end_date, price_on_date, eq_pc>>
    /\ UNCHANGED eqOthers

\* lines 150-153: the curve, sorted by QuarterEnd, is returned
ReturnCurve ==
    /\ eq_pc = "loop"
    /\ row_pos > Len(predictions_df)
    /\ curve' = SortByQuarterEnd(curve)
    /\ eq_pc' = "done"
    /\ UNCHANGED <<predictions_df, overall_end_date, price_on_date, equity, row_pos>>
    /\ UNCHANGED eqOthers

EquityNext == StartCurve \/ CurveStep \/ ReturnCurve

SpecEquity == EquityInit /\ [][EquityNext]_vars

-----------------------------------------------------------------------------
(* EquityCurve._get_price_on_date *)

\* line 88: buffer_days
BufferDays == 10
LastPriceDay == 12

\* the days the ticker may have a price row on at the data service: around
\* the start of the look-back windows, around the target dates and after
HistoryDays == {0, 1, 2} \cup ((BufferDays - 1)..LastPriceDay)
TargetDates == {BufferDays, BufferDays + 1}

\* a price row of day d: its close is 100 + d and, when the service
\* reports the column, its adjClose 200 + d
PriceRow(d, adjusted) ==
    IF adjusted THEN [date |-> d, close |-> 100 + d, adjClose |-> 200 + d]
    ELSE [date |-> d, close |-> 100 + d]

PriceHistories ==
    {[d \in D |-> PriceRow(d, adjusted)] : D \in SUBSET HistoryDays, adjusted \in BOOLEAN}

\* How fmp.get_historical_price ends: with the rows the service has between
\* "from" and "to", with an empty DataFrame (no "historical" key in the
\* answer), or with an exception.
ApiOutcomes == {"rows", "no_historical", "raises"}

\* the elements of a set of days as a sequence, latest first
RECURSIVE LatestFirst(_)
LatestFirst(D) ==
    IF D = {} THEN <<>>
    ELSE LET d == CHOOSE x \in D : \A y \in D : y <= x
         IN <<d>> \o LatestFirst(D \ {d})

\* fmp.py lines 26-39: the rows of the answer, which the service lists from
\* the latest to the earliest date between "from" and "to"
GetHistoricalPrice(history, outcome, from, to) ==
    IF outcome = "rows"
    THEN LET days == LatestFirst({d \in DOMAIN history : from <= d /\ d <= to})
         IN [i \in DOMAIN days |-> history[days[i]]]
    ELSE <<>>

\* line 100 without the sort
LatestRecordUnsorted(df) == df[Len(df)]

\* line 100: df.sort_values('date').iloc[-1]
LatestRecord(df) == SortValuesByDate(df)[Len(df)]

\* line 102: record.get('adjClose', record.get('close'))
RecordPrice(record) ==
    IF "adjClose" \in DOMAIN record THEN Price(record.adjClose) ELSE Price(record.close)

\* lines 88-106
GetPriceOnDate(history, outcome, target) ==
    IF outcome = "raises" THEN None                              \* lines 104-106
    ELSE LET df == GetHistoricalPrice(history, outcome, target - BufferDays, target)
             upto == SelectSeq(df, LAMBDA r : r.date <= target)  \* line 96
         IN IF df = <<>> THEN None                               \* lines 93-94
            ELSE IF upto = <<>> THEN None                        \* lines 97-98
            ELSE RecordPrice(LatestRecord(upto))

PriceInit ==
    /\ BuildIdle
    /\ RankIdle
    /\ SelectorIdle
    /\ EquityIdle
    /\ WalkIdle
    /\ TimelineIdle
    /\ PanelIdle
    /\ PoolIdle
    /\ TargetIdle
    /\ price_history \in PriceHistories
    /\ api_outcome \in ApiOutcomes
    /\ target_date \in TargetDates
    /\ price = <<>>
    /\ lookup_pc = "start"

\* lines 74-106
GetPriceOnDateCall ==
    /\ lookup_pc = "start"
    /\ price' = GetPriceOnDate(price_history, api_outcome, target_date)
    /\ lookup_pc' = "done"
    /\ UNCHANGED <<price_history, api_outcome, target_date>>
    /\ UNCHANGED pxOthers

PriceNext == GetPriceOnDateCall

SpecPrice == PriceInit /\ [][PriceNext]_vars

-----------------------------------------------------------------------------
(* Statements about process_quarterly_changes *)

\* The replay the timeline is specified by, written without the cursor and
\* without the sort: days in ascending order, the records of one day in
\* input order, removal before addition inside one record.
RECURSIVE ReplayRecords(_, _, _)
ReplayRecords(members, i, which) ==
    IF i > Len(changes) THEN members
    ELSE ReplayRecords(IF i \in which
                       THEN ApplyChangeTo(members, changes[i])
                       ELSE members,
                       i + 1, which)

RecordsOfDay(d) ==
    {i \in DOMAIN changes : changes[i].date.kind = "ok" /\ changes[i].date.day = d}

RecordsUnparsed == {i \in DOMAIN changes : changes[i].date.kind # "ok"}

RECURSIVE ReplayDays(_, _, _)
ReplayDays(members, d, q) ==
    IF d > q THEN members
    ELSE ReplayDays(ReplayRecords(members, 1, RecordsOfDay(d)), d + 1, q)

\* membership at q by the specified replay of the parseable records
ReplayedMembers(q) == ReplayDays({}, FirstEventDay, q)

\* membership at q when the records without a parseable date count as
\* dated before every parseable record
ReplayedMembersUnparsedFirst(q) ==
    ReplayDays(ReplayRecords({}, 1, RecordsUnparsed), FirstEventDay, q)

AllDatesParse == \A i \in DOMAIN changes : changes[i].date.kind = "ok"

TimelineDates == Range(TimelineQuarterlyDates)

\* C1: when every date parses, the snapshot recorded for a quarter boundary
\* q holds exactly the symbols obtained by replaying, in ascending date
\* order (ties in input order, removal before addition), every record dated
\* <= q, records dated before the output window included; and the returned
\* timeline has a snapshot for every boundary.
C1_SnapshotIsReplayUpToQuarter ==
    AllDatesParse =>
        /\ \A q \in DOMAIN timeline : timeline[q] = ReplayedMembers(q)
        /\ tl_pc = "done" => DOMAIN timeline = TimelineDates

\* A returned timeline built from records that all parse, in which a record
\* dated before the output window put a symbol into the first snapshot and
\* a later record changed a later snapshot.
C1_Witness ==
    /\ tl_pc = "done"
    /\ AllDatesParse
    /\ Len(changes) >= 2
    /\ \E i \in DOMAIN changes :
          /\ changes[i].date.day < TimelineQuarterlyDates[1]
          /\ changes[i].symbol # NoSymbol
          /\ changes[i].symbol \in timeline[TimelineQuarterlyDates[1]]
    /\ \E q \in DOMAIN timeline : timeline[q] # timeline[TimelineQuarterlyDates[1]]

\* C6: a record whose date is missing or unparseable counts as dated before
\* every parseable record: it is applied at the first boundary and does not
\* keep any parseable record dated <= q out of the snapshot for q.
C6_UnparsedAppliedFirst ==
    tl_pc = "done" =>
        \A q \in TimelineDates :
            /\ q \in DOMAIN timeline
            /\ timeline[q] = ReplayedMembersUnparsedFirst(q)

\* C7 as stated: an empty list of change records gives a timeline with no
\* snapshot entries.
C7_EmptyChangesEmptyTimeline ==
    (tl_pc = "done" /\ changes = <<>>) => DOMAIN timeline = {}

\* C7 amended: an empty list of change records gives a timeline with one
\* snapshot for every quarter boundary of the output range, each with an
\* empty member list.
C7_EmptyChangesEmptySnapshots ==
    (tl_pc = "done" /\ changes = <<>>) =>
        /\ DOMAIN timeline = TimelineDates
        /\ \A q \in DOMAIN timeline : timeline[q] = {}

C7_Witness ==
    /\ tl_pc = "done"
    /\ changes = <<>>
    /\ TimelineDates # {}
    /\ DOMAIN timeline = TimelineDates

-----------------------------------------------------------------------------
(* Statements about process_ticker *)

\* process_ticker went through the merge and returned a panel
PanelReturned ==
    /\ pt_pc = "done"
    /\ factors.quality.valid
    /\ factors.quality.rows # <<>>

\* the dates of the tables of every category that is a table
SourceDates ==
    UNION {DatesOf(factors[Categories[k]].rows) : k \in DOMAIN Categories}

\* C4: a value in the panel at date d in the column of a category comes from
\* a row of that category dated <= d, never from a row dated > d.
C4_FilledValuesComeFromEarlierRows ==
    pt_pc \in {"merge", "done"} =>
        \A i \in DOMAIN merged_factors :
            \A c \in DOMAIN merged_factors[i].cols :
                LET cell == merged_factors[i].cols[c]
                IN ~cell.nan =>
                      /\ cell.cat = c
                      /\ cell.src <= merged_factors[i].date
                      /\ Value(c, cell.src) \in
                            {factors[c].rows[k].val : k \in DOMAIN factors[c].rows}

\* A returned panel with a filled value: a cell whose value was reported on
\* an earlier date than the row's.
C4_Witness ==
    /\ PanelReturned
    /\ \E i \in DOMAIN merged_factors :
          \E c \in DOMAIN merged_factors[i].cols :
              /\ ~merged_factors[i].cols[c].nan
              /\ merged_factors[i].cols[c].src < merged_factors[i].date

\* C5: the returned panel has exactly one row for each distinct date that
\* appears in any category table and lies in [start_date, end_date].
C5_OneRowPerSourceDate ==
    PanelReturned =>
        /\ DatesOf(merged_factors) = {d \in SourceDates : d >= start_date /\ d <= end_date}
        /\ \A i, j \in DOMAIN merged_factors :
              i # j => merged_factors[i].date # merged_factors[j].date

-----------------------------------------------------------------------------
(* Statements about process_tickers *)

OkTickers == {t \in PoolTickers : worker_outcome[t] = "panel"}
FailedTickers == PoolTickers \ OkTickers

RECURSIVE SumOver(_, _)
SumOver(S, f) ==
    IF S = {} THEN 0
    ELSE LET x == CHOOSE y \in S : TRUE IN f[x] + SumOver(S \ {x}, f)

\* C8: the failure of one symbol (empty anchor table, exception inside
\* process_ticker, exception of its future) removes only that symbol:
\* process_tickers never raises, never gets stuck before it returns, and
\* returns the concatenation of the panels of all the other symbols.
C8_WorkerFailuresAreIsolated ==
    /\ pool_pc # "raised"
    /\ pool_pc \in {"start", "gather"} => ENABLED PoolNext
    /\ pool_pc = "done" =>
          /\ Range(pool_result) = UNION {Range(PanelRowsOf(t)) : t \in OkTickers}
          /\ Len(pool_result) = SumOver(OkTickers, [t \in PoolTickers |-> Len(PanelRowsOf(t))])
          /\ \A t \in OkTickers :
                \E k \in 0..Len(pool_result) :
                    SubSeq(pool_result, k + 1, k + Len(PanelRowsOf(t))) = PanelRowsOf(t)

\* process_tickers returned although one symbol failed in each way, and the
\* result holds the panel of the symbol that did not fail.
C8_Witness ==
    /\ pool_pc = "done"
    /\ OkTickers # {}
    /\ \E t \in FailedTickers : worker_outcome[t] = "future_error"
    /\ \E t \in FailedTickers : worker_outcome[t] \in {"no_quality", "raises"}
    /\ pool_result # <<>>

-----------------------------------------------------------------------------
(* Statements about create_target *)

SingleSymbol(df) == \A i, j \in DOMAIN df : df[i].Ticker = df[j].Ticker

\* the band of the percentage change from close prev to close cur:
\* (-inf,-10] -> 0, (-10,0] -> 1, (0,5] -> 2, (5,10] -> 3, (10,inf) -> 4
BandOfChange(prev, cur) ==
    LET change100 == 100 * (cur - prev)   \* the change in percent, times prev
    IN IF change100 <= (-10) * prev THEN 0
       ELSE IF change100 <= 0 THEN 1
       ELSE IF change100 <= 5 * prev THEN 2
       ELSE IF change100 <= 10 * prev THEN 3
       ELSE 4

IsLastRowOfSymbol(df, i) ==
    \A j \in DOMAIN df : df[j].Ticker = df[i].Ticker => j <= i

\* C10: on a panel of several symbols the final row of every symbol is
\* dropped: no symbol's last row keeps a label.
C10_LastRowOfEverySymbolDropped ==
    target_pc = "done" =>
        \A i \in DOMAIN target_df :
            IsLastRowOfSymbol(target_df, i) =>
                ~\E k \in DOMAIN target_out :
                    /\ target_out[k].Ticker = target_df[i].Ticker
                    /\ target_out[k].date = target_df[i].date

-----------------------------------------------------------------------------
(* Statements about the walk-forward loop *)

\* a quarter of the loop has been entered: current_quarter, the active
\* universe and train_active are those of that quarter
InQuarter == wf_pc \in {"loop", "done"} /\ quarter_pos > 1

\* C2: at every quarter q, whatever quarters were processed or skipped
\* before, every row of train_active has date < q and a symbol of the active
\* universe resolved for q.
C2_TrainingRowsPrecedeQuarter ==
    InQuarter =>
        \A i \in DOMAIN train_active :
            /\ train_active[i].date < current_quarter
            /\ train_active[i].Ticker \in ActiveConstituents(timeline_df, current_quarter)

\* A quarter reached after a processed and a skipped quarter whose training
\* set holds a row that was scored as a test row of an earlier quarter.
C2_Witness ==
    /\ InQuarter
    /\ Len(predictions) >= 1
    /\ Len(predictions) < quarter_pos - 2
    /\ \E i \in DOMAIN train_active :
          /\ train_active[i].date >= TrainEndDate
          /\ train_active[i].target_pred # -1

\* the panel with the close of row k changed to price c
WithClose(df, k, c) ==
    [i \in DOMAIN df |->
        IF i = k THEN [Ticker |-> df[i].Ticker, date |-> df[i].date, close |-> c]
        ELSE df[i]]

\* the panels that differ from df in one close price dated >= q
PanelsChangedFrom(df, q) ==
    {WithClose(df, k, c) : k \in {i \in DOMAIN df : df[i].date >= q}, c \in WalkPrices}

\* the label create_target gives the row (sym, d) of panel df; -1 when the
\* row is dropped
LabelOf(df, sym, d) ==
    LET out == CreateTarget(df)
        hits == {i \in DOMAIN out : out[i].Ticker = sym /\ out[i].date = d}
    IN IF hits = {} THEN -1 ELSE out[CHOOSE i \in hits : TRUE].target

\* C3: the label of every row of the training set used at quarter q is
\* computed from close prices dated before q only: changing a close price
\* dated >= q changes no training label used at q.
C3_TrainingLabelsIgnoreLaterCloses ==
    InQuarter =>
        \A alt \in PanelsChangedFrom(merged_df, current_quarter) :
            \A i \in DOMAIN train_active :
                LabelOf(alt, train_active[i].Ticker, train_active[i].date)
                    = train_active[i].target

-----------------------------------------------------------------------------
(* Statements about CummulativeImportanceSelector *)

\* the importance score of a column of selector_df
ScoreOf(f) ==
    LET imp == Importances(selector_model, importance_type)
        i == CHOOSE k \in DOMAIN selector_df : selector_df[k] = f
    IN imp[i]

TotalScore == SumSeq(Importances(selector_model, importance_type))

\* the sum of the scores of the first k selected features
SelectedScore(k) == SumSeq([i \in 1..k |-> ScoreOf(selected_features[i])])

\* C11: for non-negative importances with a positive sum and a threshold in
\* (0,1], the list select_features returns is a prefix of the features
\* sorted by importance descending, its normalised importances (score /
\* total) sum to at least the threshold, and without its last element they
\* sum to less than the threshold.
C11_SelectionIsMinimalPrefix ==
    (sel_pc = "selected" /\ TotalScore > 0) =>
        LET k == Len(selected_features)
        IN /\ k >= 1
           /\ \A i, j \in 1..k : i < j =>
                 /\ selected_features[i] # selected_features[j]
                 /\ ScoreOf(selected_features[i]) >= ScoreOf(selected_features[j])
           /\ \A f \in Range(selector_df) \ Range(selected_features) :
                 ScoreOf(f) <= ScoreOf(selected_features[k])
           /\ SelectedScore(k) * threshold.den >= threshold.num * TotalScore
           /\ SelectedScore(k - 1) * threshold.den < threshold.num * TotalScore

\* the number of importance scores the model offers, read off the attribute
\* the selector prefers
NumScores ==
    IF "feature_importances_" \in selector_model.attrs
    THEN Len(selector_model.feature_importances_)
    ELSE Len(selector_model.coef_.rows[1])

ConstructionMustFail ==
    \/ selector_model.attrs = {}
    \/ ~(threshold.num > 0 /\ threshold.num <= threshold.den)
    \/ NumScores # Len(selector_df)

\* C12: construction fails, and no selector is produced (select_features
\* cannot be called), exactly when the model has neither attribute, the
\* threshold is outside (0,1], or the number of scores differs from the
\* number of columns; in every other case it succeeds.
C12_ConstructionFailsExactlyOnInvalidInput ==
    /\ sel_pc \in {"constructed", "error", "selected"} =>
          ((sel_pc = "error") <=> ConstructionMustFail)
    /\ sel_pc = "error" => ~ENABLED SelectFeaturesCall

\* a rejected threshold of 0 with a usable model of matching length
C12_Witness ==
    /\ sel_pc = "error"
    /\ selector_model.attrs # {}
    /\ threshold.num = 0
    /\ NumScores = Len(selector_df)
    /\ Len(selector_df) > 0

-----------------------------------------------------------------------------
(* Statements about compute_equity_curve *)

\* the picks of record i whose start and end price were both resolved
ResolvedPicks(i) ==
    LET row == predictions_df[i]
        qe == IF i < Len(predictions_df) THEN predictions_df[i + 1].Quarter
              ELSE overall_end_date
    IN SelectSeq(row.Top5_Tickers, LAMBDA t :
           ~price_on_date[t][row.Quarter].none /\ ~price_on_date[t][qe].none)

\* the picks of record i with a missing start or end price
UnresolvedPicks(i) ==
    SelectSeq(predictions_df[i].Top5_Tickers,
              LAMBDA t : t \notin Range(ResolvedPicks(i)))

\* end price / start price - 1 of pick t of record i
SimpleReturn(i, t) ==
    LET row == predictions_df[i]
        qe == IF i < Len(predictions_df) THEN predictions_df[i + 1].Quarter
              ELSE overall_end_date
        ps == price_on_date[t][row.Quarter].p
        pe == price_on_date[t][qe].p
    IN FracAdd(Reduced(pe, ps), Frac(-1, 1))

\* r_i: the mean of the simple returns of the resolved picks of record i
MeanReturn(i) ==
    LET picks == ResolvedPicks(i)
    IN FracMul(FracSum([k \in DOMAIN picks |-> SimpleReturn(i, picks[k])]),
               Frac(1, Len(picks)))

\* initial_equity * (1 + r_1) * ... * (1 + r_n)
RECURSIVE Compounded(_)
Compounded(n) ==
    IF n = 0 THEN Frac(InitialEquity, 1)
    ELSE FracMul(Compounded(n - 1), FracAdd(Frac(1, 1), MeanReturn(n)))

\* r_i is defined: record i has a resolved pick and no resolved pick has a
\* start price of 0
ReturnDefined(i) ==
    /\ ResolvedPicks(i) # <<>>
    /\ \A t \in Range(ResolvedPicks(i)) : price_on_date[t][predictions_df[i].Quarter].p # 0

EquitySequence == [k \in DOMAIN curve |-> curve[k].Equity]

\* C13: the returned curve starts with the point (strategy start date,
\* initial_equity) and has one more point per prediction record; for
\* initial_equity = 100 and quarter returns 0.10 and -0.05 the equity
\* sequence is 100, 110, 104.5.
C13_CurveStartsWithSeedPoint ==
    (eq_pc = "done" /\ predictions_df # <<>>) =>
        /\ Len(curve) = Len(predictions_df) + 1
        /\ curve[1] = [QuarterEnd |-> predictions_df[1].Quarter,
                       Equity |-> Frac(InitialEquity, 1)]
        /\ (/\ Len(predictions_df) = 2
            /\ ReturnDefined(1) /\ MeanReturn(1) = Frac(1, 10)
            /\ ReturnDefined(2) /\ MeanReturn(2) = Frac(-1, 20))
           => EquitySequence = <<Frac(100, 1), Frac(110, 1), Frac(209, 2)>>

\* C14: after the n-th record the equity is initial_equity times the product
\* of (1 + r_i), i = 1..n, where r_i is the mean of the simple returns of
\* only the picks of record i with both prices resolved; a pick with a
\* missing price is left out of the mean, not counted as a zero return.
C14_EquityIsCompoundedMeanReturn ==
    (eq_pc \in {"loop", "done"} /\ predictions_df # <<>>
        /\ \A i \in 1..(row_pos - 1) : ReturnDefined(i))
    => equity = Compounded(row_pos - 1)

\* two records are done; one of them has a pick without a price next to a
\* pick with a return other than 0
C14_Witness ==
    /\ eq_pc = "done"
    /\ Len(predictions_df) = 2
    /\ \A i \in 1..2 : ReturnDefined(i)
    /\ \E i \in 1..2 :
          /\ UnresolvedPicks(i) # <<>>
          /\ MeanReturn(i) # Frac(0, 1)
    /\ equity = Compounded(2)
    /\ equity # Frac(InitialEquity, 1)

\* C15: a quarter for which no return could be computed (no pick has both a
\* start and an end price) has no point in the equity curve.
C15_NoPointForQuarterWithoutReturn ==
    eq_pc = "done" =>
        \A i \in DOMAIN predictions_df :
            ResolvedPicks(i) = <<>> =>
                ~\E k \in DOMAIN curve :
                    curve[k].QuarterEnd =
                        QuarterEnd(predictions_df, i, overall_end_date)

-----------------------------------------------------------------------------
(* Statements about two runs of process_ticker *)

-----------------------------------------------------------------------------
(* Statements about the walk-forward loop: errors, the prediction log, the
   active universe *)

\* the lines of the loop inside a try block at which an iteration raised
CaughtLines == {173, 182, 191, 194}

\* the latest iteration is over and the loop has moved on
MovedOn ==
    /\ wf_pc \in {"loop", "done"}
    /\ quarter_pos > 1
    /\ current_quarter = Quarters[quarter_pos - 1]

HasRecord(q) == \E i \in DOMAIN predictions : predictions[i].Quarter = q

LatestQuarterSucceeded ==
    /\ train_active # <<>>
    /\ test_active # <<>>
    /\ raised_at \notin {173, 182, 191}

\* C18: the prediction log holds exactly one record for every quarter with
\* non-empty filtered training and test sets whose feature selection,
\* training and prediction succeeded and none for any other quarter, in
\* ascending quarter order; the loop visits each quarter once and ends after
\* the last.
C18_OneRecordPerSucceededQuarter ==
    (wf_pc \in {"loop", "done"} /\ quarter_pos > 1) =>
        /\ current_quarter = Quarters[quarter_pos - 1]
        /\ HasRecord(current_quarter) <=> LatestQuarterSucceeded
        /\ \A i, j \in DOMAIN predictions :
              i < j => predictions[i].Quarter < predictions[j].Quarter
        /\ \A i \in DOMAIN predictions :
              \E k \in 1..(quarter_pos - 1) : predictions[i].Quarter = Quarters[k]
        /\ wf_pc = "done" => quarter_pos = Len(Quarters) + 1

\* C19: a skipped quarter (no filtered training rows, no filtered test rows,
\* or a caught error) appends no prediction record and leaves train_data
\* exactly as it was before the quarter.
C19_SkippedQuarterChangesNothing ==
    [][(/\ wf_pc = "loop"
        /\ quarter_pos' = quarter_pos + 1
        /\ \/ train_active' = <<>>
           \/ test_active' = <<>>
           \/ raised_at' \in CaughtLines)
       => (/\ predictions' = predictions
           /\ train_data' = train_data
           /\ train_columns' = train_columns)]_vars

\* a quarter was skipped for a caught error after an earlier quarter had
\* been scored and taken into the training state
C19_Witness ==
    /\ MovedOn
    /\ raised_at \in CaughtLines
    /\ train_active # <<>>
    /\ test_active # <<>>
    /\ Len(predictions) >= 1
    /\ ~HasRecord(current_quarter)
    /\ \E i \in DOMAIN train_data : train_data[i].target_pred # -1

\* C20: the active universe of quarter q is the member list of the snapshot
\* dated q if there is one, else of the latest snapshot dated before q,
\* else empty; never that of a snapshot dated after q.
C20_ActiveUniverseIsLatestSnapshotUpToQuarter ==
    (wf_pc \in {"loop", "done", "aborted"} /\ current_quarter # 0) =>
        LET q == current_quarter
            earlier == {d \in DOMAIN timeline_df : d < q}
        IN IF q \in DOMAIN timeline_df
           THEN active_constituents = timeline_df[q]
           ELSE IF earlier # {}
           THEN \E d \in earlier :
                   /\ \A e \in earlier : e <= d
                   /\ active_constituents = timeline_df[d]
           ELSE active_constituents = {}

\* no snapshot is dated q; an earlier and a later one differ, and the
\* earlier one was used
C20_Witness ==
    /\ wf_pc = "loop"
    /\ current_quarter # 0
    /\ current_quarter \notin DOMAIN timeline_df
    /\ \E d, e \in DOMAIN timeline_df :
          /\ d < current_quarter
          /\ e > current_quarter
          /\ timeline_df[d] # timeline_df[e]
          /\ timeline_df[d] # {}
          /\ active_constituents = timeline_df[d]

-----------------------------------------------------------------------------
(* Statements about the training state of the walk-forward loop *)

\* the labeled panel after scaling (lines 85-98), row by row
LabeledPanel ==
    LET scaled_df == MinMaxTransform(CreateTarget(merged_df))
    IN {scaled_df[i] : i \in DOMAIN scaled_df}

\* df has a row of symbol sym dated d
HasRow(df, sym, d) == \E i \in DOMAIN df : df[i].Ticker = sym /\ df[i].date = d

\* an iteration of the loop has run; current_quarter, active_constituents
\* and train_active are those of the latest one
IterationRan == wf_pc \in {"loop", "done", "aborted"} /\ current_quarter # 0

\* C21: at every quarter q the training set contains every labeled-panel row
\* with date < q whose symbol is a member of the active universe at q, also
\* the earlier rows of a symbol that was outside the universe at an earlier
\* processed quarter and is a member again at q.
C21_TrainingSetHoldsEveryActiveEarlierRow ==
    IterationRan =>
        \A r \in LabeledPanel :
            (r.date < current_quarter /\ r.Ticker \in active_constituents)
                => HasRow(train_active, r.Ticker, r.date)

\* the step is an iteration of the loop
IterationStep ==
    wf_pc = "loop" /\ (quarter_pos' = quarter_pos + 1 \/ wf_pc' = "aborted")

\* the step is an iteration that scored its quarter
ScoredStep == wf_pc = "loop" /\ Len(predictions') = Len(predictions) + 1

Dates(df) == {df[i].date : i \in DOMAIN df}

\* the test rows of the quarter of the step whose symbol is active
QuarterTestRows ==
    {r \in Range(test_data) :
        /\ r.Ticker \in active_constituents'
        /\ r.date >= current_quarter'
        /\ \A k \in DOMAIN Quarters :
              Quarters[k] > current_quarter' => r.date < Quarters[k]}

\* the update of a scored quarter, and what the next quarter trains on
TrainingStateUpdate ==
    /\ ScoredStep =>
          /\ Range(train_data') =
                {r \in Range(train_data) : r.Ticker \in active_constituents'}
                   \cup Range(test_active')
          /\ Len(train_data') =
                Cardinality({i \in DOMAIN train_data :
                                train_data[i].Ticker \in active_constituents'})
                   + Len(test_active')
          /\ \A r \in QuarterTestRows : HasRow(test_active', r.Ticker, r.date)
          /\ \A i \in DOMAIN test_active' :
                /\ test_active'[i].target_pred # -1
                /\ \E r \in QuarterTestRows :
                      r.Ticker = test_active'[i].Ticker /\ r.date = test_active'[i].date
    /\ IterationStep =>
          \A r \in Range(train_data) :
              (r.target_pred # -1 /\ r.Ticker \in active_constituents')
                  => r \in Range(train_active')

-----------------------------------------------------------------------------
(* Statements about the ranking *)

\* the rows of the test set of the quarter whose symbol is active
FilteredTestRows == {r \in Range(rank_test_quarter) : r.Ticker \in rank_active}

\* C23: the record emitted for quarter q lists the symbols of the first
\* K = 5 rows of the filtered test set after sorting it by predicted class
\* descending and then predicted probability descending; its length is
\* min(5, number of filtered test rows) and every listed symbol is a member
\* of the active universe at q.
C23_RecordListsFirstFiveOfRankedTestSet ==
    rank_pc = "done" =>
        LET n == Cardinality(FilteredTestRows)
        IN /\ Len(rank_test_active) = n
           /\ \A r \in FilteredTestRows : HasRow(rank_test_active, r.Ticker, r.date)
           /\ \A i, j \in DOMAIN rank_test_active :
                 i < j =>
                    \/ rank_test_active[i].target_pred > rank_test_active[j].target_pred
                    \/ /\ rank_test_active[i].target_pred = rank_test_active[j].target_pred
                       /\ rank_test_active[i].target_pred_proba
                             >= rank_test_active[j].target_pred_proba
           /\ Len(top5) = IF n < 5 THEN n ELSE 5
           /\ \A i \in DOMAIN top5 :
                 /\ top5[i] = rank_test_active[i].Ticker
                 /\ top5[i] \in rank_active

\* more than five filtered test rows, some rows filtered out, and the
\* sort moved the last row of the test set to the front
C23_Witness ==
    /\ rank_pc = "done"
    /\ Len(rank_test_active) > 5
    /\ Len(rank_test_quarter) > Len(rank_test_active)
    /\ Len(top5) = 5
    /\ rank_test_active[1].date >= rank_test_active[Len(rank_test_active)].date
    /\ rank_test_active[1].target_pred > rank_test_active[Len(rank_test_active)].target_pred

-----------------------------------------------------------------------------
(* Statements about the scaler *)

\* the scaled close of the row of symbol sym dated d in the scaled panel
\* that main builds from the panel df
ScaledClose(df, sym, d) ==
    LET scaled_df == MinMaxTransform(CreateTarget(df))
        i == CHOOSE i \in DOMAIN scaled_df :
                scaled_df[i].Ticker = sym /\ scaled_df[i].date = d
    IN scaled_df[i].close

SameFraction(a, b) == a.num * b.den = b.num * a.den

\* C24: the scaler is fit per training window: the minimum and maximum used
\* to scale the feature values of the training set of quarter q are computed
\* only from rows dated before q, so changing a feature value of a row dated
\* >= q leaves every scaled training value used at q unchanged.
C24_ScaledTrainingValuesIgnoreLaterRows ==
    IterationRan =>
        \A alt \in PanelsChangedFrom(merged_df, current_quarter) :
            \A i \in DOMAIN train_active :
                SameFraction(train_active[i].close,
                             ScaledClose(alt, train_active[i].Ticker,
                                         train_active[i].date))

-----------------------------------------------------------------------------
(* Statements about the panel main builds *)

\* the factor cell process_ticker returned for the row of symbol sym dated d
ReturnedCell(sym, d) == ticker_panels[sym][d].factor

\* C25: in the cleaning step main applies to the concatenated panel before
\* target derivation, a missing value in a row of symbol s at date d is
\* filled only from a row of the same symbol s with date <= d; it is never
\* filled from a later row or from a row of another symbol.
C25_MissingValueFilledFromSameSymbolEarlierRow ==
    build_pc \in {"cleaned", "labeled"} =>
        \A i \in DOMAIN build_df :
            LET r == build_df[i]
            IN (ReturnedCell(r.Ticker, r.date).kind # "value" /\ r.factor.kind = "value")
                  => (r.factor.sym = r.Ticker /\ r.factor.src <= r.date)

\* the labeled panel main builds when the futures complete in this order
LabeledPanelFor(order) == WithTarget(Clean(ProcessTickers(ticker_panels, order)))

\* C26: for fixed inputs, the labeled panel that main builds (process_tickers
\* result, then fill, then create_target) is the same for every order in
\* which the per-symbol workers complete: neither the set of rows nor any
\* filled value or target label depends on the completion order.
C26_LabeledPanelIndependentOfCompletionOrder ==
    build_pc = "labeled" =>
        \A order \in CompletionOrders :
            Range(LabeledPanelFor(order)) = Range(build_df)

-----------------------------------------------------------------------------
(* Statements about the candidate features and the top-K list *)

\* line 169: X_train = train_active.drop(columns=["date", "Ticker", "target"])
CandidateFeatures(columns) == columns \ {"date", "Ticker", "target"}

-----------------------------------------------------------------------------
(* Statements about categories that are no table *)

\* the category has a row dated within [start_date, end_date]
HasRowInRange(cat) ==
    \E k \in DOMAIN factors[cat].rows :
        factors[cat].rows[k].date >= start_date /\ factors[cat].rows[k].date <= end_date

\* category cat is no table with a date column: it is in no row of the
\* panel, and every other category that is a table is in every row, of
\* which there is one at least when that category has a row in the date
\* range
SkippedAndOthersMerged(cat) ==
    /\ \A i \in DOMAIN merged_factors : cat \notin DOMAIN merged_factors[i].cols
    /\ \A k \in DOMAIN Categories :
          LET other == Categories[k]
          IN (other # cat /\ factors[other].valid) =>
                /\ \A i \in DOMAIN merged_factors : other \in DOMAIN merged_factors[i].cols
                /\ HasRowInRange(other) => merged_factors # <<>>

\* C29 (as amended): a category other than the anchor "quality" whose value
\* is not a table with a date column is skipped and contributes no column to
\* the symbol's panel; every other category is still merged and the symbol's
\* panel is still returned.  When "quality" itself is no such table,
\* process_ticker returns an empty panel.
C29_InvalidOtherCategorySkipped ==
    pt_pc = "done" =>
        /\ \A k \in DOMAIN Categories :
              (Categories[k] # "quality" /\ ~factors[Categories[k]].valid
                  /\ factors.quality.valid)
                 => SkippedAndOthersMerged(Categories[k])
        /\ ~factors.quality.valid => merged_factors = <<>>

\* C29 as stated: a category whose value is not a table with a date column
\* is skipped and contributes no column to the symbol's panel; every other
\* category is still merged and the symbol's panel is still returned.
C29_InvalidCategorySkipped ==
    pt_pc = "done" =>
        \A k \in DOMAIN Categories :
            ~factors[Categories[k]].valid => SkippedAndOthersMerged(Categories[k])

\* "momentum" is no table, "quality" is one with rows of which some were
\* filled; the panel was returned with the quality column alone
C29_Witness ==
    /\ pt_pc = "done"
    /\ ~factors.momentum.valid
    /\ factors.quality.valid
    /\ Len(merged_factors) >= 2
    /\ \A i \in DOMAIN merged_factors : DOMAIN merged_factors[i].cols = {"quality"}
    /\ \E i \in DOMAIN merged_factors : ~merged_factors[i].cols["quality"].nan

-----------------------------------------------------------------------------
(* Statements about _get_price_on_date *)

\* the days of the price rows within the look-back window of the target
LookBackWindow ==
    {d \in DOMAIN price_history :
        target_date - 10 <= d /\ d <= target_date}

\* the price of a row: its adjClose when the rows have one, else its close
PriceOfRow(r) == IF "adjClose" \in DOMAIN r THEN r.adjClose ELSE r.close

\* C30: the price _get_price_on_date returns for (ticker, target date) is
\* the price of the latest price row whose date d satisfies
\* target - 10 days <= d <= target; it returns None when no such row exists
\* or the lookup fails, and never returns a price dated after the target
\* date.
C30_PriceIsLatestRowWithinLookBack ==
    lookup_pc = "done" =>
        /\ IF api_outcome = "rows" /\ LookBackWindow # {}
           THEN \E d \in LookBackWindow :
                   /\ \A e \in LookBackWindow : e <= d
                   /\ price = [none |-> FALSE, p |-> PriceOfRow(price_history[d])]
           ELSE price.none
        /\ \A d \in DOMAIN price_history :
              (~price.none /\ price.p = PriceOfRow(price_history[d])) => d <= target_date

\* a price was returned from a row before the target date while the ticker
\* has a row before the window, two rows within it and a row after the
\* target date
C30_Witness ==
    /\ lookup_pc = "done"
    /\ ~price.none
    /\ target_date \notin DOMAIN price_history
    /\ Cardinality(LookBackWindow) >= 2
    /\ \E d \in DOMAIN price_history : d < target_date - 10
    /\ \E d \in DOMAIN price_history : d > target_date

=============================================================================
